---------------------------- MODULE Spec2Model ----------------------------
(***************************************************************************)
(* Model of the pattern-based analyzer of screenshot-debugger              *)
(* (src/lib/traditional-analyzer.ts) and of the page that calls it.        *)
(*                                                                         *)
(* A JavaScript string is a sequence of one-character strings, so that     *)
(* the regular expressions of the rule catalog are matched character by    *)
(* character.  A regular expression is a syntax tree; Match is a           *)
(* backtracking matcher that tries the ways a pattern matches at a         *)
(* position in the priority order of ECMAScript (greedy quantifiers first, *)
(* alternatives left to right) and returns the end of the first that       *)
(* succeeds, which is the match RegExp.prototype.exec reports.             *)
(*                                                                         *)
(* Spec is one call of analyzeCode after another, SpecPage is the page     *)
(* Index with its handlers and the remote function, and SpecSteps is two   *)
(* callers of analyzeCode interleaved at every regex.exec.                 *)
(***************************************************************************)
EXTENDS Integers, Sequences, FiniteSets, TLC

VARIABLES
    pc,            \* position of the call: idle, code, logs, sort, stats, done
    codeSnippet,   \* first argument of analyzeCode
    terminalLogs,  \* second argument of analyzeCode
    issues,        \* the local array `issues`
    report,        \* the returned { issues, summary, stats }, or NoReport
    \* the state of the page Index (codeSnippet and terminalLogs are its too)
    analysisMode,
    screenshot,
    isAnalyzing,
    aiAnalysis,
    traditionalAnalysis,   \* a report of analyzeCode; NoReport stands for null
    inFlight,      \* the bodies sent to supabase.functions.invoke, not yet settled
    toast,         \* the last toast shown
    cleared,       \* history: handleClear has run and no handleAnalyze since
    \* interleaved calls of analyzeCode, one regex.exec at a time
    frames,        \* per caller: position, arguments, rule index, report
    issuesOf,      \* the arrays `issues`, by the call that made them
    lastIndexOf    \* lastIndex of every RegExp object

callVars == <<pc, issues, report>>
pageVars == <<analysisMode, screenshot, isAnalyzing, aiAnalysis,
              traditionalAnalysis, inFlight, toast, cleared>>
stepVars == <<frames, issuesOf, lastIndexOf>>

vars == <<callVars, codeSnippet, terminalLogs, pageVars, stepVars>>

---------------------------------------------------------------------------
(* Characters *)

UpperCase == <<"A","B","C","D","E","F","G","H","I","J","K","L","M",
               "N","O","P","Q","R","S","T","U","V","W","X","Y","Z">>
LowerCase == <<"a","b","c","d","e","f","g","h","i","j","k","l","m",
               "n","o","p","q","r","s","t","u","v","w","x","y","z">>
Digits == {"0","1","2","3","4","5","6","7","8","9"}

Range(s) == {s[k] : k \in DOMAIN s}

\* String.prototype.toUpperCase on a lower-case letter
ToUpperCase ==
    [c \in Range(LowerCase) |-> UpperCase[CHOOSE k \in 1..26 : LowerCase[k] = c]]

\* Canonicalize of the i flag: the upper-case form of a character.
Canonicalize(c) ==
    IF c \in DOMAIN ToUpperCase THEN ToUpperCase[c] ELSE c

\* \s and the characters String.prototype.trim strips.
WhiteSpace == {" ", "\t", "\n", "\r", "\f"}
\* the characters `.` and [^...] treat as line ends
LineTerminator == {"\n", "\r"}
\* \w
WordChar == Range(UpperCase) \cup Range(LowerCase) \cup Digits \cup {"_"}

---------------------------------------------------------------------------
(* Regular expression syntax trees *)

Unbounded == -1

Lit(s)          == [t |-> "lit", s |-> s]
Cls(S)          == [t |-> "cls", neg |-> FALSE, S |-> S]
NotCls(S)       == [t |-> "cls", neg |-> TRUE, S |-> S]
Dot             == NotCls(LineTerminator)
Cat(rs)         == [t |-> "cat", rs |-> rs]
Alt(rs)         == [t |-> "alt", rs |-> rs]
Rep(r, lo, hi)  == [t |-> "rep", r |-> r, lo |-> lo, hi |-> hi]
Star(r)         == Rep(r, 0, Unbounded)
Plus(r)         == Rep(r, 1, Unbounded)
Opt(r)          == Rep(r, 0, 1)
NegLook(r)      == [t |-> "nla", r |-> r]
Eol             == [t |-> "eol"]
WordB           == [t |-> "wb"]
Ws              == Cls(WhiteSpace)
Chr(c)          == Lit(<<c>>)

---------------------------------------------------------------------------
(* The matcher.  Positions are 0-based as in JavaScript: position i is     *)
(* before the character s[i + 1].                                          *)

SameChar(a, b, flags) ==
    IF "i" \in flags THEN Canonicalize(a) = Canonicalize(b) ELSE a = b

InClass(c, S, flags) ==
    IF "i" \in flags
    THEN \E d \in S : SameChar(c, d, flags)
    ELSE c \in S

LitMatches(lit, flags, s, i) ==
    /\ i + Len(lit) <= Len(s)
    /\ \A k \in 1..Len(lit) : SameChar(s[i + k], lit[k], flags)

IsWordAt(s, i) == i >= 0 /\ i < Len(s) /\ s[i + 1] \in WordChar

Min(S) == CHOOSE x \in S : \A y \in S : x <= y
Max(S) == CHOOSE x \in S : \A y \in S : x >= y

Fail == -1

\* a repetition under way: n iterations done, the last one begun at `from`
Loop(re, n, from) == [t |-> "loop", re |-> re, n |-> n, from |-> from]

\* The backtracking matcher of ECMAScript: `todo` is the sequence of
\* patterns still to match from position i on (the continuation); the
\* result is the end of the first match in priority order (a greedy
\* quantifier takes all it can and gives back one at a time, alternatives
\* are tried left to right), or Fail.
RECURSIVE Match(_, _, _, _)

\* a pattern that takes exactly one character when it matches: a class, or
\* assertions followed by a class
OneChar(re) ==
    \/ re.t = "cls"
    \/ /\ re.t = "cat"
       /\ re.rs # <<>>
       /\ re.rs[Len(re.rs)].t = "cls"
       /\ \A k \in 1..(Len(re.rs) - 1) : re.rs[k].t \in {"nla", "eol", "wb"}

\* the number of consecutive matches of the one-character pattern re from
\* position i on, at most hi of them
Run(re, hi, flags, s, i) ==
    LET out == {k \in 1..(Len(s) - i) :
                    IF re.t = "cls"
                    THEN InClass(s[i + k], re.S, flags) = re.neg
                    ELSE Match(<<re>>, flags, s, i + k - 1) = Fail}
        all == IF out = {} THEN Len(s) - i ELSE Min(out) - 1
    IN  IF hi # Unbounded /\ all > hi THEN hi ELSE all

Match(todo, flags, s, i) ==
    IF todo = <<>> THEN i
    ELSE
    LET re == Head(todo)
        rest == Tail(todo)
    IN  CASE re.t = "lit" ->
                IF LitMatches(re.s, flags, s, i)
                THEN Match(rest, flags, s, i + Len(re.s)) ELSE Fail
          [] re.t = "cls" ->
                IF i < Len(s) /\ (InClass(s[i + 1], re.S, flags) # re.neg)
                THEN Match(rest, flags, s, i + 1) ELSE Fail
          [] re.t = "cat" -> Match(re.rs \o rest, flags, s, i)
          [] re.t = "alt" ->
                LET ok == {k \in DOMAIN re.rs :
                              Match(<<re.rs[k]>> \o rest, flags, s, i) # Fail}
                IN  IF ok = {} THEN Fail
                    ELSE Match(<<re.rs[Min(ok)]>> \o rest, flags, s, i)
          [] re.t = "rep" /\ OneChar(re.r) ->
                \* a repeated single character: the longest run first
                LET ok == {j \in re.lo..Run(re.r, re.hi, flags, s, i) :
                              Match(rest, flags, s, i + j) # Fail}
                IN  IF ok = {} THEN Fail
                    ELSE Match(rest, flags, s, i + Max(ok))
          [] re.t = "rep" /\ ~OneChar(re.r) ->
                Match(<<Loop(re, 0, -1)>> \o rest, flags, s, i)
          [] re.t = "loop" ->
                IF i = re.from THEN Fail   \* an empty iteration is rejected
                ELSE
                LET more == IF re.re.hi = Unbounded \/ re.n < re.re.hi
                            THEN Match(<<re.re.r, Loop(re.re, re.n + 1, i)>> \o rest,
                                       flags, s, i)
                            ELSE Fail
                IN  IF more # Fail THEN more
                    ELSE IF re.n >= re.re.lo THEN Match(rest, flags, s, i)
                    ELSE Fail
          [] re.t = "nla" ->
                IF Match(<<re.r>>, flags, s, i) = Fail
                THEN Match(rest, flags, s, i) ELSE Fail
          [] re.t = "eol" ->
                IF \/ i = Len(s)
                   \/ "m" \in flags /\ i < Len(s) /\ s[i + 1] \in LineTerminator
                THEN Match(rest, flags, s, i) ELSE Fail
          [] re.t = "wb" ->
                IF IsWordAt(s, i - 1) # IsWordAt(s, i)
                THEN Match(rest, flags, s, i) ELSE Fail

NoMatch == [index |-> -1, end |-> -1]

\* exec of a sticky regex (flag y in place of g): the match must begin at
\* lastIndex
Exec_Sticky(re, flags, s, lastIndex) ==
    IF lastIndex > Len(s) \/ Match(<<re>>, flags, s, lastIndex) = Fail
    THEN NoMatch
    ELSE [index |-> lastIndex, end |-> Match(<<re>>, flags, s, lastIndex)]

\* exec of a regex that matches the empty string where the pattern matches
Exec_EmptyMatch(re, flags, s, lastIndex) ==
    LET starts == {p \in lastIndex..Len(s) : Match(<<re>>, flags, s, p) # Fail}
    IN  IF starts = {} THEN NoMatch
        ELSE [index |-> Min(starts), end |-> Min(starts)]

\* RegExp.prototype.exec of a global regex: the leftmost match at or after
\* lastIndex; `end` is the lastIndex the call leaves behind.
Exec(re, flags, s, lastIndex) ==
    LET starts == {p \in lastIndex..Len(s) : Match(<<re>>, flags, s, p) # Fail}
    IN  IF starts = {} THEN NoMatch
        ELSE [index |-> Min(starts), end |-> Match(<<re>>, flags, s, Min(starts))]

\* a scan that stops at the first match (`if` in place of `while`)
ExecLoop_FirstOnly(re, flags, s, lastIndex) ==
    LET match == Exec(re, flags, s, lastIndex)
    IN  IF match = NoMatch THEN <<>> ELSE <<match>>

\* every match of the loop `while ((match = regex.exec(text)) !== null)` on a
\* regex whose lastIndex is `lastIndex`, in the order the loop sees them
RECURSIVE ExecLoop(_, _, _, _)
ExecLoop(re, flags, s, lastIndex) ==
    LET match == Exec(re, flags, s, lastIndex)
    IN  IF match = NoMatch THEN <<>>
        ELSE <<match>> \o ExecLoop(re, flags, s, match.end)

\* new RegExp(source, flags) starts with lastIndex = 0
NewRegExpLastIndex == 0

---------------------------------------------------------------------------
(* The rule catalog.  The strings a rule carries are only copied by the    *)
(* code and stay whole; an absent suggestion or fixCode is Undefined.      *)

Undefined == "undefined"

CODE_PATTERNS == <<
    \* 1 (line 33): /console\.(log|debug|info|warn|error)\s*\(/g
    [regex |-> Cat(<<Lit(<<"c", "o", "n", "s", "o", "l", "e", ".">>), Alt(<<Lit(<<"l", "o", "g">>), Lit(<<"d", "e", "b", "u", "g">>), Lit(<<"i", "n", "f", "o">>), Lit(<<"w", "a", "r", "n">>), Lit(<<"e", "r", "r", "o", "r">>)>>), Star(Ws), Chr("(")>>),
     flags |-> {"g"},
     type |-> "warning",
     category |-> "Security",
     message |-> "Console statement found - should be removed in production",
     suggestion |-> "Remove console statements or use a logging library with environment checks",
     fixCode |-> Undefined],
    \* 2 (line 40): /(password|secret|api[_-]?key|token)\s*[:=]\s*['"][^'"]+['"]/gi
    [regex |-> Cat(<<Alt(<<Lit(<<"p", "a", "s", "s", "w", "o", "r", "d">>), Lit(<<"s", "e", "c", "r", "e", "t">>), Cat(<<Lit(<<"a", "p", "i">>), Opt(Cls({"_", "-"})), Lit(<<"k", "e", "y">>)>>), Lit(<<"t", "o", "k", "e", "n">>)>>), Star(Ws), Cls({":", "="}), Star(Ws), Cls({"'", "\""}), Plus(NotCls({"'", "\""})), Cls({"'", "\""})>>),
     flags |-> {"g", "i"},
     type |-> "error",
     category |-> "Security",
     message |-> "Potential hardcoded secret detected",
     suggestion |-> "Use environment variables instead of hardcoding secrets",
     fixCode |-> Undefined],
    \* 3 (line 47): /eval\s*\(/g
    [regex |-> Cat(<<Lit(<<"e", "v", "a", "l">>), Star(Ws), Chr("(")>>),
     flags |-> {"g"},
     type |-> "error",
     category |-> "Security",
     message |-> "eval() is dangerous and can lead to code injection",
     suggestion |-> "Avoid eval() - use safer alternatives like JSON.parse() for data",
     fixCode |-> Undefined],
    \* 4 (line 54): /innerHTML\s*=/g
    [regex |-> Cat(<<Lit(<<"i", "n", "n", "e", "r", "H", "T", "M", "L">>), Star(Ws), Chr("=")>>),
     flags |-> {"g"},
     type |-> "warning",
     category |-> "Security",
     message |-> "innerHTML can lead to XSS vulnerabilities",
     suggestion |-> "Use textContent or sanitize HTML with DOMPurify",
     fixCode |-> Undefined],
    \* 5 (line 61): /dangerouslySetInnerHTML/g
    [regex |-> Lit(<<"d", "a", "n", "g", "e", "r", "o", "u", "s", "l", "y", "S", "e", "t", "I", "n", "n", "e", "r", "H", "T", "M", "L">>),
     flags |-> {"g"},
     type |-> "warning",
     category |-> "Security",
     message |-> "dangerouslySetInnerHTML can lead to XSS attacks",
     suggestion |-> "Sanitize content with DOMPurify before rendering",
     fixCode |-> Undefined],
    \* 6 (line 70): /catch\s*\([^)]*\)\s*\{\s*\}/g
    [regex |-> Cat(<<Lit(<<"c", "a", "t", "c", "h">>), Star(Ws), Chr("("), Star(NotCls({")"})), Chr(")"), Star(Ws), Chr("{"), Star(Ws), Chr("}")>>),
     flags |-> {"g"},
     type |-> "error",
     category |-> "Error Handling",
     message |-> "Empty catch block - errors are silently ignored",
     suggestion |-> "Log errors or handle them appropriately",
     fixCode |-> "catch (error) {\n  console.error('Error:', error);\n  // Handle error appropriately\n}"],
    \* 7 (line 78): /\.catch\s*\(\s*\(\s*\)\s*=>\s*\{\s*\}\s*\)/g
    [regex |-> Cat(<<Lit(<<".", "c", "a", "t", "c", "h">>), Star(Ws), Chr("("), Star(Ws), Chr("("), Star(Ws), Chr(")"), Star(Ws), Lit(<<"=", ">">>), Star(Ws), Chr("{"), Star(Ws), Chr("}"), Star(Ws), Chr(")")>>),
     flags |-> {"g"},
     type |-> "error",
     category |-> "Error Handling",
     message |-> "Empty .catch() handler - Promise errors are silently ignored",
     suggestion |-> "Handle Promise rejections properly",
     fixCode |-> Undefined],
    \* 8 (line 85): /async\s+function[^{]+\{(?:(?!try\s*\{).)*\}$/gm
    [regex |-> Cat(<<Lit(<<"a", "s", "y", "n", "c">>), Plus(Ws), Lit(<<"f", "u", "n", "c", "t", "i", "o", "n">>), Plus(NotCls({"{"})), Chr("{"), Star(Cat(<<NegLook(Cat(<<Lit(<<"t", "r", "y">>), Star(Ws), Chr("{")>>)), Dot>>)), Chr("}"), Eol>>),
     flags |-> {"g", "m"},
     type |-> "warning",
     category |-> "Error Handling",
     message |-> "Async function without try-catch block",
     suggestion |-> "Wrap async code in try-catch for proper error handling",
     fixCode |-> Undefined],
    \* 9 (line 94): /var\s+\w+/g
    [regex |-> Cat(<<Lit(<<"v", "a", "r">>), Plus(Ws), Plus(Cls(WordChar))>>),
     flags |-> {"g"},
     type |-> "warning",
     category |-> "Code Quality",
     message |-> "Using 'var' instead of 'let' or 'const'",
     suggestion |-> "Use 'const' for constants, 'let' for variables that change",
     fixCode |-> Undefined],
    \* 10 (line 101): /==(?!=)/g
    [regex |-> Cat(<<Lit(<<"=", "=">>), NegLook(Chr("="))>>),
     flags |-> {"g"},
     type |-> "warning",
     category |-> "Code Quality",
     message |-> "Using loose equality (==) instead of strict equality (===)",
     suggestion |-> "Use === for strict type comparison",
     fixCode |-> Undefined],
    \* 11 (line 108): /!=(?!=)/g
    [regex |-> Cat(<<Lit(<<"!", "=">>), NegLook(Chr("="))>>),
     flags |-> {"g"},
     type |-> "warning",
     category |-> "Code Quality",
     message |-> "Using loose inequality (!=) instead of strict inequality (!==)",
     suggestion |-> "Use !== for strict type comparison",
     fixCode |-> Undefined],
    \* 12 (line 115): /\/\/\s*TODO/gi
    [regex |-> Cat(<<Lit(<<"/", "/">>), Star(Ws), Lit(<<"T", "O", "D", "O">>)>>),
     flags |-> {"g", "i"},
     type |-> "info",
     category |-> "Code Quality",
     message |-> "TODO comment found - incomplete implementation",
     suggestion |-> "Complete the TODO or create a tracked issue",
     fixCode |-> Undefined],
    \* 13 (line 122): /\/\/\s*FIXME/gi
    [regex |-> Cat(<<Lit(<<"/", "/">>), Star(Ws), Lit(<<"F", "I", "X", "M", "E">>)>>),
     flags |-> {"g", "i"},
     type |-> "warning",
     category |-> "Code Quality",
     message |-> "FIXME comment found - known issue needs attention",
     suggestion |-> "Fix the issue or create a tracked bug report",
     fixCode |-> Undefined],
    \* 14 (line 129): /\/\/\s*HACK/gi
    [regex |-> Cat(<<Lit(<<"/", "/">>), Star(Ws), Lit(<<"H", "A", "C", "K">>)>>),
     flags |-> {"g", "i"},
     type |-> "warning",
     category |-> "Code Quality",
     message |-> "HACK comment found - workaround in place",
     suggestion |-> "Consider refactoring to a proper solution",
     fixCode |-> Undefined],
    \* 15 (line 136): /debugger\s*;?/g
    [regex |-> Cat(<<Lit(<<"d", "e", "b", "u", "g", "g", "e", "r">>), Star(Ws), Opt(Chr(";"))>>),
     flags |-> {"g"},
     type |-> "error",
     category |-> "Code Quality",
     message |-> "Debugger statement found - must be removed for production",
     suggestion |-> "Remove debugger statements before deploying",
     fixCode |-> Undefined],
    \* 16 (line 145): /key\s*=\s*\{?\s*index\s*\}?/g
    [regex |-> Cat(<<Lit(<<"k", "e", "y">>), Star(Ws), Chr("="), Star(Ws), Opt(Chr("{")), Star(Ws), Lit(<<"i", "n", "d", "e", "x">>), Star(Ws), Opt(Chr("}"))>>),
     flags |-> {"g"},
     type |-> "warning",
     category |-> "React",
     message |-> "Using array index as key - can cause rendering issues",
     suggestion |-> "Use unique identifiers instead of array indices as keys",
     fixCode |-> Undefined],
    \* 17 (line 152): /useEffect\s*\(\s*async/g
    [regex |-> Cat(<<Lit(<<"u", "s", "e", "E", "f", "f", "e", "c", "t">>), Star(Ws), Chr("("), Star(Ws), Lit(<<"a", "s", "y", "n", "c">>)>>),
     flags |-> {"g"},
     type |-> "error",
     category |-> "React",
     message |-> "useEffect callback should not be async directly",
     suggestion |-> "Define async function inside useEffect and call it",
     fixCode |-> "useEffect(() => {\n  const fetchData = async () => {\n    // async code here\n  };\n  fetchData();\n}, []);"],
    \* 18 (line 160): /useState\s*<[^>]+>\s*\(\s*\[\s*\]\s*\)/g
    [regex |-> Cat(<<Lit(<<"u", "s", "e", "S", "t", "a", "t", "e">>), Star(Ws), Chr("<"), Plus(NotCls({">"})), Chr(">"), Star(Ws), Chr("("), Star(Ws), Chr("["), Star(Ws), Chr("]"), Star(Ws), Chr(")")>>),
     flags |-> {"g"},
     type |-> "info",
     category |-> "React",
     message |-> "Consider using useMemo for expensive array initializations",
     suggestion |-> "If this array requires computation, use useMemo",
     fixCode |-> Undefined],
    \* 19 (line 169): /:\s*any\b/g
    [regex |-> Cat(<<Chr(":"), Star(Ws), Lit(<<"a", "n", "y">>), WordB>>),
     flags |-> {"g"},
     type |-> "warning",
     category |-> "TypeScript",
     message |-> "Using 'any' type defeats TypeScript's type safety",
     suggestion |-> "Define proper types or use 'unknown' for truly unknown types",
     fixCode |-> Undefined],
    \* 20 (line 176): /@ts-ignore/g
    [regex |-> Lit(<<"@", "t", "s", "-", "i", "g", "n", "o", "r", "e">>),
     flags |-> {"g"},
     type |-> "warning",
     category |-> "TypeScript",
     message |-> "@ts-ignore suppresses type checking",
     suggestion |-> "Fix the type error instead of ignoring it",
     fixCode |-> Undefined],
    \* 21 (line 183): /as\s+any\b/g
    [regex |-> Cat(<<Lit(<<"a", "s">>), Plus(Ws), Lit(<<"a", "n", "y">>), WordB>>),
     flags |-> {"g"},
     type |-> "warning",
     category |-> "TypeScript",
     message |-> "Type assertion to 'any' bypasses type checking",
     suggestion |-> "Use proper type narrowing or define correct types",
     fixCode |-> Undefined],
    \* 22 (line 192): /if\s*\([^)]*\)\s*;/g
    [regex |-> Cat(<<Lit(<<"i", "f">>), Star(Ws), Chr("("), Star(NotCls({")"})), Chr(")"), Star(Ws), Chr(";")>>),
     flags |-> {"g"},
     type |-> "error",
     category |-> "Potential Bug",
     message |-> "Empty if statement - likely a typo",
     suggestion |-> "Remove the semicolon or add the intended code block",
     fixCode |-> Undefined],
    \* 23 (line 199): /for\s*\([^)]*\)\s*;/g
    [regex |-> Cat(<<Lit(<<"f", "o", "r">>), Star(Ws), Chr("("), Star(NotCls({")"})), Chr(")"), Star(Ws), Chr(";")>>),
     flags |-> {"g"},
     type |-> "error",
     category |-> "Potential Bug",
     message |-> "Empty for loop - likely a typo",
     suggestion |-> "Remove the semicolon or add the intended code block",
     fixCode |-> Undefined],
    \* 24 (line 206): /return\s*\n\s*\{/g
    [regex |-> Cat(<<Lit(<<"r", "e", "t", "u", "r", "n">>), Star(Ws), Chr("\n"), Star(Ws), Chr("{")>>),
     flags |-> {"g"},
     type |-> "error",
     category |-> "Potential Bug",
     message |-> "Return statement with line break before object - returns undefined",
     suggestion |-> "Put the opening brace on the same line as return",
     fixCode |-> Undefined],
    \* 25 (line 213): /=\s*=\s*=/g
    [regex |-> Cat(<<Chr("="), Star(Ws), Chr("="), Star(Ws), Chr("=")>>),
     flags |-> {"g"},
     type |-> "error",
     category |-> "Potential Bug",
     message |-> "Invalid operator (three equals with spaces)",
     suggestion |-> "Use === without spaces for strict equality",
     fixCode |-> Undefined],
    \* 26 (line 222): /\.map\([^)]+\)\.filter\([^)]+\)/g
    [regex |-> Cat(<<Lit(<<".", "m", "a", "p", "(">>), Plus(NotCls({")"})), Lit(<<")", ".", "f", "i", "l", "t", "e", "r", "(">>), Plus(NotCls({")"})), Chr(")")>>),
     flags |-> {"g"},
     type |-> "info",
     category |-> "Performance",
     message |-> "Chained .map().filter() - consider using .reduce() for efficiency",
     suggestion |-> "Use .reduce() to iterate only once",
     fixCode |-> Undefined],
    \* 27 (line 229): /JSON\.parse\(JSON\.stringify\(/g
    [regex |-> Lit(<<"J", "S", "O", "N", ".", "p", "a", "r", "s", "e", "(", "J", "S", "O", "N", ".", "s", "t", "r", "i", "n", "g", "i", "f", "y", "(">>),
     flags |-> {"g"},
     type |-> "warning",
     category |-> "Performance",
     message |-> "Deep clone via JSON - slow and loses functions/dates",
     suggestion |-> "Use structuredClone() or a proper deep clone library",
     fixCode |-> Undefined]
>>

TERMINAL_PATTERNS == <<
    \* 1 (line 240): /Error:\s*.+/gi
    [regex |-> Cat(<<Lit(<<"E", "r", "r", "o", "r", ":">>), Star(Ws), Plus(Dot)>>),
     flags |-> {"g", "i"},
     type |-> "error",
     category |-> "Runtime Error",
     message |-> "Error detected in terminal output",
     suggestion |-> Undefined,
     fixCode |-> Undefined],
    \* 2 (line 246): /TypeError:\s*.+/gi
    [regex |-> Cat(<<Lit(<<"T", "y", "p", "e", "E", "r", "r", "o", "r", ":">>), Star(Ws), Plus(Dot)>>),
     flags |-> {"g", "i"},
     type |-> "error",
     category |-> "Type Error",
     message |-> "Type error - likely accessing property of undefined/null",
     suggestion |-> Undefined,
     fixCode |-> Undefined],
    \* 3 (line 252): /ReferenceError:\s*.+/gi
    [regex |-> Cat(<<Lit(<<"R", "e", "f", "e", "r", "e", "n", "c", "e", "E", "r", "r", "o", "r", ":">>), Star(Ws), Plus(Dot)>>),
     flags |-> {"g", "i"},
     type |-> "error",
     category |-> "Reference Error",
     message |-> "Reference error - undefined variable used",
     suggestion |-> Undefined,
     fixCode |-> Undefined],
    \* 4 (line 258): /SyntaxError:\s*.+/gi
    [regex |-> Cat(<<Lit(<<"S", "y", "n", "t", "a", "x", "E", "r", "r", "o", "r", ":">>), Star(Ws), Plus(Dot)>>),
     flags |-> {"g", "i"},
     type |-> "error",
     category |-> "Syntax Error",
     message |-> "Syntax error - malformed code",
     suggestion |-> Undefined,
     fixCode |-> Undefined],
    \* 5 (line 264): /ENOENT/gi
    [regex |-> Lit(<<"E", "N", "O", "E", "N", "T">>),
     flags |-> {"g", "i"},
     type |-> "error",
     category |-> "File System",
     message |-> "File or directory not found",
     suggestion |-> Undefined,
     fixCode |-> Undefined],
    \* 6 (line 270): /ECONNREFUSED/gi
    [regex |-> Lit(<<"E", "C", "O", "N", "N", "R", "E", "F", "U", "S", "E", "D">>),
     flags |-> {"g", "i"},
     type |-> "error",
     category |-> "Network",
     message |-> "Connection refused - service may be down",
     suggestion |-> Undefined,
     fixCode |-> Undefined],
    \* 7 (line 276): /ETIMEDOUT/gi
    [regex |-> Lit(<<"E", "T", "I", "M", "E", "D", "O", "U", "T">>),
     flags |-> {"g", "i"},
     type |-> "error",
     category |-> "Network",
     message |-> "Connection timeout - network or service issue",
     suggestion |-> Undefined,
     fixCode |-> Undefined],
    \* 8 (line 282): /Cannot find module/gi
    [regex |-> Lit(<<"C", "a", "n", "n", "o", "t", " ", "f", "i", "n", "d", " ", "m", "o", "d", "u", "l", "e">>),
     flags |-> {"g", "i"},
     type |-> "error",
     category |-> "Module",
     message |-> "Missing module - check package.json or imports",
     suggestion |-> Undefined,
     fixCode |-> Undefined],
    \* 9 (line 288): /deprecated/gi
    [regex |-> Lit(<<"d", "e", "p", "r", "e", "c", "a", "t", "e", "d">>),
     flags |-> {"g", "i"},
     type |-> "warning",
     category |-> "Deprecation",
     message |-> "Deprecated feature in use",
     suggestion |-> Undefined,
     fixCode |-> Undefined],
    \* 10 (line 294): /warning/gi
    [regex |-> Lit(<<"w", "a", "r", "n", "i", "n", "g">>),
     flags |-> {"g", "i"},
     type |-> "warning",
     category |-> "Warning",
     message |-> "Warning detected in terminal output",
     suggestion |-> Undefined,
     fixCode |-> Undefined],
    \* 11 (line 300): /out of memory|heap|memory leak/gi
    [regex |-> Alt(<<Lit(<<"o", "u", "t", " ", "o", "f", " ", "m", "e", "m", "o", "r", "y">>), Lit(<<"h", "e", "a", "p">>), Lit(<<"m", "e", "m", "o", "r", "y", " ", "l", "e", "a", "k">>)>>),
     flags |-> {"g", "i"},
     type |-> "error",
     category |-> "Memory",
     message |-> "Potential memory issue detected",
     suggestion |-> Undefined,
     fixCode |-> Undefined],
    \* 12 (line 306): /cors|cross-origin/gi
    [regex |-> Alt(<<Lit(<<"c", "o", "r", "s">>), Lit(<<"c", "r", "o", "s", "s", "-", "o", "r", "i", "g", "i", "n">>)>>),
     flags |-> {"g", "i"},
     type |-> "error",
     category |-> "CORS",
     message |-> "CORS issue - cross-origin request blocked",
     suggestion |-> Undefined,
     fixCode |-> Undefined],
    \* 13 (line 312): /401|unauthorized/gi
    [regex |-> Alt(<<Lit(<<"4", "0", "1">>), Lit(<<"u", "n", "a", "u", "t", "h", "o", "r", "i", "z", "e", "d">>)>>),
     flags |-> {"g", "i"},
     type |-> "error",
     category |-> "Authentication",
     message |-> "Authentication error - invalid or missing credentials",
     suggestion |-> Undefined,
     fixCode |-> Undefined],
    \* 14 (line 318): /403|forbidden/gi
    [regex |-> Alt(<<Lit(<<"4", "0", "3">>), Lit(<<"f", "o", "r", "b", "i", "d", "d", "e", "n">>)>>),
     flags |-> {"g", "i"},
     type |-> "error",
     category |-> "Authorization",
     message |-> "Authorization error - insufficient permissions",
     suggestion |-> Undefined,
     fixCode |-> Undefined],
    \* 15 (line 324): /404|not found/gi
    [regex |-> Alt(<<Lit(<<"4", "0", "4">>), Lit(<<"n", "o", "t", " ", "f", "o", "u", "n", "d">>)>>),
     flags |-> {"g", "i"},
     type |-> "warning",
     category |-> "Not Found",
     message |-> "Resource not found",
     suggestion |-> Undefined,
     fixCode |-> Undefined],
    \* 16 (line 330): /500|internal server error/gi
    [regex |-> Alt(<<Lit(<<"5", "0", "0">>), Lit(<<"i", "n", "t", "e", "r", "n", "a", "l", " ", "s", "e", "r", "v", "e", "r", " ", "e", "r", "r", "o", "r">>)>>),
     flags |-> {"g", "i"},
     type |-> "error",
     category |-> "Server Error",
     message |-> "Internal server error",
     suggestion |-> Undefined,
     fixCode |-> Undefined]
>>

---------------------------------------------------------------------------
(* analyzeCode *)

\* String.prototype.trim
RECURSIVE TrimStart(_)
TrimStart(s) ==
    IF s # <<>> /\ Head(s) \in WhiteSpace THEN TrimStart(Tail(s)) ELSE s

RECURSIVE TrimEnd(_)
TrimEnd(s) ==
    IF s # <<>> /\ s[Len(s)] \in WhiteSpace
    THEN TrimEnd(SubSeq(s, 1, Len(s) - 1)) ELSE s

Trim(s) == TrimEnd(TrimStart(s))

\* truthiness of a string
Truthy(s) == s # <<>>

\* String.prototype.substring(from, to) with 0 <= from
Substring(s, from, to) ==
    SubSeq(s, from + 1, IF to > Len(s) THEN Len(s) ELSE to)

\* a line number that counts from 0
findLineNumber_FromZero(content, matchIndex) ==
    LET beforeMatch == Substring(content, 0, matchIndex)
    IN  Len(SelectSeq(beforeMatch, LAMBDA c : c = "\n"))

findLineNumber(content, matchIndex) ==
    LET beforeMatch == Substring(content, 0, matchIndex)
    IN  Len(SelectSeq(beforeMatch, LAMBDA c : c = "\n")) + 1

\* a code issue whose message quotes the match as a log issue's does
CodeIssue_Interpolated(pattern, text, match) ==
    [type |-> pattern.type,
     category |-> pattern.category,
     message |-> <<pattern.message, ":", " ", "\"">>
                    \o Substring(text, match.index, match.end) \o <<"\"">>,
     line |-> findLineNumber(text, match.index),
     suggestion |-> pattern.suggestion,
     code |-> pattern.fixCode]

\* the object pushed at lines 353-360; a message is the sequence of its
\* pieces, here the rule's message alone
CodeIssue(pattern, text, match) ==
    [type |-> pattern.type,
     category |-> pattern.category,
     message |-> <<pattern.message>>,
     line |-> findLineNumber(text, match.index),
     suggestion |-> pattern.suggestion,
     code |-> pattern.fixCode]

MaxEmbed == 50

\* a template that puts the ellipsis from 50 characters on
LogMessage_EllipsisAtLimit(pattern, match0) ==
    <<pattern.message, ":", " ", "\"">>
        \o Substring(match0, 0, MaxEmbed)
        \o (IF Len(match0) >= MaxEmbed THEN <<".", ".", ".">> ELSE <<>>)
        \o <<"\"">>

\* the template literal of line 382
LogMessage(pattern, match0) ==
    <<pattern.message, ":", " ", "\"">>
        \o Substring(match0, 0, MaxEmbed)
        \o (IF Len(match0) > MaxEmbed THEN <<".", ".", ".">> ELSE <<>>)
        \o <<"\"">>

\* the object pushed at lines 379-385 (it has no `code` property)
LogIssue(pattern, text, match) ==
    [type |-> pattern.type,
     category |-> pattern.category,
     message |-> LogMessage(pattern, Substring(text, match.index, match.end)),
     line |-> findLineNumber(text, match.index),
     suggestion |-> pattern.suggestion,
     code |-> Undefined]

\* lines 351-361: one push per match
RECURSIVE PushCodeMatches(_, _, _, _)
PushCodeMatches(acc, pattern, text, matches) ==
    IF matches = <<>> THEN acc
    ELSE PushCodeMatches(Append(acc, CodeIssue(pattern, text, Head(matches))),
                         pattern, text, Tail(matches))

\* lines 347-362
RECURSIVE ScanCodePatterns(_, _, _)
ScanCodePatterns(acc, k, text) ==
    IF k > Len(CODE_PATTERNS) THEN acc
    ELSE LET pattern == CODE_PATTERNS[k]
             matches == ExecLoop(pattern.regex, pattern.flags, text, NewRegExpLastIndex)
         IN  ScanCodePatterns(PushCodeMatches(acc, pattern, text, matches), k + 1, text)

\* a lookup that compares the message where the code compares the type
ExistingIssue_ByMessage(acc, pattern) ==
    \E k \in DOMAIN acc :
        acc[k].category = pattern.category /\ acc[k].message = <<pattern.message>>

\* a lookup that also asks for the same rule
ExistingIssue_SameRule(acc, pattern) ==
    \E k \in DOMAIN acc :
        /\ acc[k].category = pattern.category
        /\ acc[k].type = pattern.type
        /\ acc[k].message[1] = pattern.message

\* a lookup that compares the type alone
ExistingIssue_ByType(acc, pattern) ==
    \E k \in DOMAIN acc : acc[k].type = pattern.type

\* issues.find(i => i.category === pattern.category && i.type === pattern.type)
ExistingIssue(acc, pattern) ==
    \E k \in DOMAIN acc :
        acc[k].category = pattern.category /\ acc[k].type = pattern.type

\* lines 371-387: a push per match unless an issue of the pair exists
RECURSIVE PushLogMatches(_, _, _, _)
PushLogMatches(acc, pattern, text, matches) ==
    IF matches = <<>> THEN acc
    ELSE PushLogMatches(
            IF ExistingIssue(acc, pattern) THEN acc
            ELSE Append(acc, LogIssue(pattern, text, Head(matches))),
            pattern, text, Tail(matches))

\* lines 367-388
RECURSIVE ScanTerminalPatterns(_, _, _)
ScanTerminalPatterns(acc, k, text) ==
    IF k > Len(TERMINAL_PATTERNS) THEN acc
    ELSE LET pattern == TERMINAL_PATTERNS[k]
             matches == ExecLoop(pattern.regex, pattern.flags, text, NewRegExpLastIndex)
         IN  ScanTerminalPatterns(PushLogMatches(acc, pattern, text, matches), k + 1, text)

severityOrder(type) ==
    CASE type = "error" -> 0 [] type = "warning" -> 1 [] type = "info" -> 2

\* the comparator with its operands exchanged
Compare_Descending(a, b) == severityOrder(b.type) - severityOrder(a.type)

\* the comparator of line 393
Compare(a, b) == severityOrder(a.type) - severityOrder(b.type)

\* an insertion that puts an element before its equals
RECURSIVE InsertSorted_Unstable(_, _)
InsertSorted_Unstable(sorted, x) ==
    IF sorted = <<>> THEN <<x>>
    ELSE IF Compare(x, sorted[Len(sorted)]) <= 0
         THEN Append(InsertSorted_Unstable(SubSeq(sorted, 1, Len(sorted) - 1), x),
                     sorted[Len(sorted)])
         ELSE Append(sorted, x)

\* Array.prototype.sort is stable: an element goes behind every element it
\* does not sort before
RECURSIVE InsertSorted(_, _)
InsertSorted(sorted, x) ==
    IF sorted = <<>> THEN <<x>>
    ELSE IF Compare(x, sorted[Len(sorted)]) < 0
         THEN Append(InsertSorted(SubSeq(sorted, 1, Len(sorted) - 1), x),
                     sorted[Len(sorted)])
         ELSE Append(sorted, x)

RECURSIVE SortFrom(_, _, _)
SortFrom(sorted, arr, k) ==
    IF k > Len(arr) THEN sorted
    ELSE SortFrom(InsertSorted(sorted, arr[k]), arr, k + 1)

Sort(arr) == SortFrom(<<>>, arr, 1)

CountType(arr, type) == Len(SelectSeq(arr, LAMBDA i : i.type = type))

\* the info count taken from the warnings
Stats_InfoFromWarnings(arr) ==
    [errors |-> CountType(arr, "error"),
     warnings |-> CountType(arr, "warning"),
     info |-> CountType(arr, "warning")]

\* lines 395-399
Stats(arr) ==
    [errors |-> CountType(arr, "error"),
     warnings |-> CountType(arr, "warning"),
     info |-> CountType(arr, "info")]

\* a summary without the case of no issues
Summary_NoEmptyCase(arr, stats) ==
    IF stats.errors > 0 THEN
        <<"Found ", ToString(stats.errors), " error",
          IF stats.errors > 1 THEN "s" ELSE "",
          ", ", ToString(stats.warnings), " warning",
          IF stats.warnings # 1 THEN "s" ELSE "",
          ", and ", ToString(stats.info), " info message",
          IF stats.info # 1 THEN "s" ELSE "",
          ". Address errors first.">>
    ELSE IF stats.warnings > 0 THEN
        <<"Found ", ToString(stats.warnings), " warning",
          IF stats.warnings > 1 THEN "s" ELSE "",
          " and ", ToString(stats.info), " info message",
          IF stats.info # 1 THEN "s" ELSE "",
          ". Consider addressing warnings for better code quality.">>
    ELSE
        <<"Found ", ToString(stats.info), " info message",
          IF stats.info > 1 THEN "s" ELSE "",
          ". Minor improvements suggested.">>

\* a summary that looks at the warnings before the errors
Summary_WarningsFirst(arr, stats) ==
    IF Len(arr) = 0 THEN
        <<"No issues detected. Code looks clean!">>
    ELSE IF stats.warnings > 0 THEN
        <<"Found ", ToString(stats.warnings), " warning",
          IF stats.warnings > 1 THEN "s" ELSE "",
          " and ", ToString(stats.info), " info message",
          IF stats.info # 1 THEN "s" ELSE "",
          ". Consider addressing warnings for better code quality.">>
    ELSE IF stats.errors > 0 THEN
        <<"Found ", ToString(stats.errors), " error",
          IF stats.errors > 1 THEN "s" ELSE "",
          ", ", ToString(stats.warnings), " warning",
          IF stats.warnings # 1 THEN "s" ELSE "",
          ", and ", ToString(stats.info), " info message",
          IF stats.info # 1 THEN "s" ELSE "",
          ". Address errors first.">>
    ELSE
        <<"Found ", ToString(stats.info), " info message",
          IF stats.info > 1 THEN "s" ELSE "",
          ". Minor improvements suggested.">>

\* a summary that tests `> 1` for every count
Summary_PluralAboveOne(arr, stats) ==
    IF Len(arr) = 0 THEN
        <<"No issues detected. Code looks clean!">>
    ELSE IF stats.errors > 0 THEN
        <<"Found ", ToString(stats.errors), " error",
          IF stats.errors > 1 THEN "s" ELSE "",
          ", ", ToString(stats.warnings), " warning",
          IF stats.warnings > 1 THEN "s" ELSE "",
          ", and ", ToString(stats.info), " info message",
          IF stats.info > 1 THEN "s" ELSE "",
          ". Address errors first.">>
    ELSE IF stats.warnings > 0 THEN
        <<"Found ", ToString(stats.warnings), " warning",
          IF stats.warnings > 1 THEN "s" ELSE "",
          " and ", ToString(stats.info), " info message",
          IF stats.info > 1 THEN "s" ELSE "",
          ". Consider addressing warnings for better code quality.">>
    ELSE
        <<"Found ", ToString(stats.info), " info message",
          IF stats.info > 1 THEN "s" ELSE "",
          ". Minor improvements suggested.">>

\* lines 401-410; a template literal is the sequence of its pieces
Summary(arr, stats) ==
    IF Len(arr) = 0 THEN
        <<"No issues detected. Code looks clean!">>
    ELSE IF stats.errors > 0 THEN
        <<"Found ", ToString(stats.errors), " error",
          IF stats.errors > 1 THEN "s" ELSE "",
          ", ", ToString(stats.warnings), " warning",
          IF stats.warnings # 1 THEN "s" ELSE "",
          ", and ", ToString(stats.info), " info message",
          IF stats.info # 1 THEN "s" ELSE "",
          ". Address errors first.">>
    ELSE IF stats.warnings > 0 THEN
        <<"Found ", ToString(stats.warnings), " warning",
          IF stats.warnings > 1 THEN "s" ELSE "",
          " and ", ToString(stats.info), " info message",
          IF stats.info # 1 THEN "s" ELSE "",
          ". Consider addressing warnings for better code quality.">>
    ELSE
        <<"Found ", ToString(stats.info), " info message",
          IF stats.info > 1 THEN "s" ELSE "",
          ". Minor improvements suggested.">>

---------------------------------------------------------------------------
(* The inputs of a call: a text is typed or pasted as a few fragments.     *)

CodeFragments == {
    <<"v", "a", "r", " ", "x", " ", "=", " ", "1", ";">>,
    <<"e", "v", "a", "l", "(">>,
    <<"/", "/", "T", "O", "D", "O">>,
    <<"=">>,
    <<" ">>,
    <<"\n">>
}

LogFragments == {
    <<"E", "r", "r", "o", "r", ":", " ", "f", "o", "o", "\n">>,
    <<"E", "r", "r", "o", "r", ":", " ", "b", "a", "r">>,
    <<"E", "C", "O", "N", "N", "R", "E", "F", "U", "S", "E", "D">>,
    <<"e", "t", "i", "m", "e", "d", "o", "u", "t">>,
    <<"d", "e", "p", "r", "e", "c", "a", "t", "e", "d">>,
    <<" ">>
}

\* n times the character c
Filler(c, n) == [k \in 1..n |-> c]

\* whole texts that the fragments do not make up
LineThreeCode ==
    <<"a", "\n", "b", "\n", "v", "a", "r", " ", "x", " ", "=", " ", "1", ";">>
EmptyCatchCode ==
    <<"t", "r", "y", " ", "{", " ", "r", "i", "s", "k", "y", "(", ")", ";", " ", "}",
      " ", "c", "a", "t", "c", "h", " ", "(", "e", ")", " ", "{", "}">>
StrictEqualityCode ==
    <<"a", " ", "=", "=", "=", " ", "b", ";", " ", "c", " ", "!", "=", "=", " ", "d", ";">>

\* an empty catch block without a binding (optional catch binding)
BareCatchCode ==
    <<"t", "r", "y", " ", "{", " ", "r", "i", "s", "k", "y", "(", ")", ";", " ", "}",
      " ", "c", "a", "t", "c", "h", " ", "{", "}">>

CodeExamples == {LineThreeCode, EmptyCatchCode, BareCatchCode, StrictEqualityCode}

ErrorPrefix == <<"E", "r", "r", "o", "r", ":", " ">>
\* log lines that the first rule matches whole, of 49, 50, 51 and 60 characters
ErrorLine(n) == ErrorPrefix \o Filler("x", n - Len(ErrorPrefix))
TimeoutThenRefused ==
    <<"r", "e", "a", "d", " ", "E", "T", "I", "M", "E", "D", "O", "U", "T", "\n",
      "c", "o", "n", "n", "e", "c", "t", " ", "E", "C", "O", "N", "N", "R", "E", "F", "U", "S", "E", "D">>
RefusedThenTimeout ==
    <<"c", "o", "n", "n", "e", "c", "t", " ", "E", "C", "O", "N", "N", "R", "E", "F", "U", "S", "E", "D", "\n",
      "r", "e", "a", "d", " ", "E", "T", "I", "M", "E", "D", "O", "U", "T">>

LogExamples ==
    {ErrorLine(MaxEmbed - 1), ErrorLine(MaxEmbed), ErrorLine(MaxEmbed + 1),
     ErrorLine(MaxEmbed + 10), TimeoutThenRefused, RefusedThenTimeout}

\* at most this many fragments in the two arguments of a call together
MaxFragments == 3

\* the number of fragments of a text is not recoverable from the text, so
\* the call draws the two counts and then the texts
RECURSIVE Concats(_, _)
Concats(fragments, n) ==
    IF n = 0 THEN {<<>>}
    ELSE {t \o f : t \in Concats(fragments, n - 1), f \in fragments}

NoReport == [issues |-> <<>>, summary |-> <<>>, stats |-> [errors |-> -1, warnings |-> -1, info |-> -1]]

---------------------------------------------------------------------------
(* Initial values of the page and of the interleaved calls                 *)

Null == "null"

NoToast == [title |-> "", description |-> <<>>]

\* the callers of the interleaved calls
Callers == {"caller1", "caller2"}

\* the RegExp objects of the catalog, pattern.regex of every rule
CatalogRegexes ==
    {<<"CODE_PATTERNS", k>> : k \in DOMAIN CODE_PATTERNS}
        \cup {<<"TERMINAL_PATTERNS", k>> : k \in DOMAIN TERMINAL_PATTERNS}

\* the RegExp object a call makes for the rule it is scanning with
LocalRegexes == {<<c, 0>> : c \in Callers}

\* a caller that is not in a call
IdleFrame ==
    [pc |-> "idle", codeSnippet |-> <<>>, terminalLogs |-> <<>>, k |-> 0,
     report |-> NoReport, overlapped |-> FALSE]

---------------------------------------------------------------------------
(* The state machine: one call of analyzeCode after another.               *)

Init ==
    /\ pc = "idle"
    /\ codeSnippet = <<>>
    /\ terminalLogs = <<>>
    /\ issues = <<>>
    /\ report = NoReport
    /\ analysisMode = "ai"
    /\ screenshot = Null
    /\ isAnalyzing = FALSE
    /\ aiAnalysis = Null
    /\ traditionalAnalysis = NoReport
    /\ inFlight = <<>>
    /\ toast = NoToast
    /\ cleared = FALSE
    /\ frames = [c \in Callers |-> IdleFrame]
    /\ issuesOf = [c \in Callers |-> <<>>]
    /\ lastIndexOf = [o \in CatalogRegexes \cup LocalRegexes |-> 0]

\* line 342-343: a caller passes two strings; `const issues = []`
Call ==
    /\ pc = "idle"
    /\ \/ \E n \in 0..MaxFragments : \E m \in 0..(MaxFragments - n) :
            \E c \in Concats(CodeFragments, n), l \in Concats(LogFragments, m) :
                /\ codeSnippet' = c
                /\ terminalLogs' = l
       \/ \E c \in CodeExamples \cup {<<>>}, l \in LogExamples \cup {<<>>} :
                /\ codeSnippet' = c
                /\ terminalLogs' = l
    /\ issues' = <<>>
    /\ report' = NoReport
    /\ pc' = "code"
    /\ UNCHANGED <<pageVars, stepVars>>

\* lines 346-363
ScanCode ==
    /\ pc = "code"
    /\ issues' = IF Truthy(Trim(codeSnippet))
                 THEN ScanCodePatterns(issues, 1, codeSnippet)
                 ELSE issues
    /\ pc' = "logs"
    /\ UNCHANGED <<codeSnippet, terminalLogs, report, pageVars, stepVars>>

\* lines 366-389
ScanLogs ==
    /\ pc = "logs"
    /\ issues' = IF Truthy(Trim(terminalLogs))
                 THEN ScanTerminalPatterns(issues, 1, terminalLogs)
                 ELSE issues
    /\ pc' = "sort"
    /\ UNCHANGED <<codeSnippet, terminalLogs, report, pageVars, stepVars>>

\* lines 391-393
SortIssues ==
    /\ pc = "sort"
    /\ issues' = Sort(issues)
    /\ pc' = "stats"
    /\ UNCHANGED <<codeSnippet, terminalLogs, report, pageVars, stepVars>>

\* lines 395-412
Return ==
    /\ pc = "stats"
    /\ LET stats == Stats(issues)
       IN  report' = [issues |-> issues,
                      summary |-> Summary(issues, stats),
                      stats |-> stats]
    /\ pc' = "done"
    /\ UNCHANGED <<codeSnippet, terminalLogs, issues, pageVars, stepVars>>

\* the caller is done with the report; the next call starts afresh
Release ==
    /\ pc = "done"
    /\ pc' = "idle"
    /\ codeSnippet' = <<>>
    /\ terminalLogs' = <<>>
    /\ issues' = <<>>
    /\ report' = NoReport
    /\ UNCHANGED <<pageVars, stepVars>>

Next == Call \/ ScanCode \/ ScanLogs \/ SortIssues \/ Return \/ Release

Spec == Init /\ [][Next]_vars

\* the whole function, for comparing one call with another
analyzeCode(code, logs) ==
    LET afterCode == IF Truthy(Trim(code)) THEN ScanCodePatterns(<<>>, 1, code) ELSE <<>>
        afterLogs == IF Truthy(Trim(logs)) THEN ScanTerminalPatterns(afterCode, 1, logs) ELSE afterCode
        sorted == Sort(afterLogs)
        stats == Stats(sorted)
    IN  [issues |-> sorted, summary |-> Summary(sorted, stats), stats |-> stats]

TypeOK ==
    /\ pc \in {"idle", "code", "logs", "sort", "stats", "done"}
    /\ pc = "done" => report = analyzeCode(codeSnippet, terminalLogs)

---------------------------------------------------------------------------
(* The page Index: its state, its handlers and the remote function.  The   *)
(* analyze button is rendered with disabled = !hasInput || isAnalyzing and *)
(* the clear button only when hasInput, so the handlers run from the       *)
(* states in which their buttons can be clicked.  The one exception is     *)
(* HandleAnalyzeNoInput: handleAnalyze tests hasInput itself (line 42),    *)
(* and that branch is modelled as a call the button does not make.         *)

\* what the user types or pastes into the two text inputs
TypedCode == {<<>>, EmptyCatchCode}
TypedLogs == {<<>>, <<" ">>, RefusedThenTimeout}

\* what ScreenshotUpload hands to onChange: a data URL, or null on removal
Screenshots == {"data:image/png;base64", Null}

AnalysisModes == {"ai", "traditional"}

\* the data of a settled remote call that reports no error
AnalysisData == "AnalysisData"

\* the ways the remote call fails: `error` is set, data.error is set, or the
\* promise rejects
Failures == {"error", "data.error", "rejected"}

\* handlers run one at a time, each to its end or to its await
NoHandlerRuns == pc = "idle"

\* line 39
hasInput ==
    \/ screenshot # Null
    \/ Truthy(Trim(terminalLogs))
    \/ Truthy(Trim(codeSnippet))

\* lines 69-73: the body handed to supabase.functions.invoke
Body ==
    [screenshot |-> screenshot, terminalLogs |-> terminalLogs,
     codeSnippet |-> codeSnippet]

\* a handler that calls the remote function in both modes
Invocations_BothModes(mode, body) == <<body>>

\* lines 55-75: the remote calls handleAnalyze makes in a mode; the
\* traditional branch returns at line 65, before the invoke of line 68
Invocations(mode, body) ==
    IF mode = "traditional" THEN <<>> ELSE <<body>>

\* lines 60-63
TraditionalToast(result) ==
    [title |-> "Traditional analysis complete",
     description |-> <<"Found ", ToString(result.stats.errors), " errors, ",
                       ToString(result.stats.warnings), " warnings, ",
                       ToString(result.stats.info), " info messages.">>]

\* lines 145 and 156
SetAnalysisMode ==
    /\ NoHandlerRuns
    /\ \E mode \in AnalysisModes : analysisMode' = mode
    /\ UNCHANGED <<codeSnippet, terminalLogs, screenshot, isAnalyzing,
                   aiAnalysis, traditionalAnalysis, inFlight, toast>>
    /\ UNCHANGED <<callVars, stepVars>>
    /\ UNCHANGED cleared

\* lines 199-208: the upload is rendered in AI mode only
SetScreenshot ==
    /\ NoHandlerRuns
    /\ analysisMode = "ai"
    /\ \E value \in Screenshots : screenshot' = value
    /\ UNCHANGED <<codeSnippet, terminalLogs, analysisMode, isAnalyzing,
                   aiAnalysis, traditionalAnalysis, inFlight, toast>>
    /\ UNCHANGED <<callVars, stepVars>>
    /\ UNCHANGED cleared

\* lines 211-217
SetTerminalLogs ==
    /\ NoHandlerRuns
    /\ \E value \in TypedLogs : terminalLogs' = value
    /\ UNCHANGED <<codeSnippet, analysisMode, screenshot, isAnalyzing,
                   aiAnalysis, traditionalAnalysis, inFlight, toast>>
    /\ UNCHANGED <<callVars, stepVars>>
    /\ UNCHANGED cleared

\* lines 220-226
SetCodeSnippet ==
    /\ NoHandlerRuns
    /\ \E value \in TypedCode : codeSnippet' = value
    /\ UNCHANGED <<terminalLogs, analysisMode, screenshot, isAnalyzing,
                   aiAnalysis, traditionalAnalysis, inFlight, toast>>
    /\ UNCHANGED <<callVars, stepVars>>
    /\ UNCHANGED cleared

\* lines 43-47
NoInputToast ==
    [title |-> "No input provided",
     description |-> <<"Please add at least one: screenshot, terminal logs, or code snippet.">>]

\* lines 41-49: handleAnalyze with no input shows a toast and returns
HandleAnalyzeNoInput ==
    /\ NoHandlerRuns
    /\ ~hasInput
    /\ toast' = NoInputToast
    /\ UNCHANGED <<codeSnippet, terminalLogs, analysisMode, screenshot,
                   isAnalyzing, aiAnalysis, traditionalAnalysis, inFlight>>
    /\ UNCHANGED <<callVars, stepVars>>
    /\ cleared' = FALSE

\* lines 41-57 in traditional mode, up to the call of analyzeCode with the
\* two texts of the page; the call runs by ScanCode, ScanLogs, SortIssues
\* and Return, and no other handler runs before it has returned
HandleAnalyzeTraditional ==
    /\ NoHandlerRuns
    /\ hasInput
    /\ ~isAnalyzing
    /\ analysisMode = "traditional"
    /\ isAnalyzing' = TRUE
    /\ aiAnalysis' = Null
    /\ traditionalAnalysis' = NoReport
    /\ inFlight' = inFlight \o Invocations(analysisMode, Body)
    /\ issues' = <<>>
    /\ report' = NoReport
    /\ pc' = "code"
    /\ UNCHANGED <<codeSnippet, terminalLogs, analysisMode, screenshot, toast>>
    /\ UNCHANGED stepVars
    /\ cleared' = FALSE

\* lines 57-65: analyzeCode has returned `result`
TraditionalAnalysisComplete ==
    /\ pc = "done"
    /\ traditionalAnalysis' = report
    /\ isAnalyzing' = FALSE
    /\ toast' = TraditionalToast(report)
    /\ pc' = "idle"
    /\ issues' = <<>>
    /\ report' = NoReport
    /\ UNCHANGED <<codeSnippet, terminalLogs, analysisMode, screenshot,
                   aiAnalysis, inFlight>>
    /\ UNCHANGED stepVars
    /\ UNCHANGED cleared

\* lines 41-75 in AI mode, up to the await
HandleAnalyzeAI ==
    /\ NoHandlerRuns
    /\ hasInput
    /\ ~isAnalyzing
    /\ analysisMode = "ai"
    /\ isAnalyzing' = TRUE
    /\ aiAnalysis' = Null
    /\ traditionalAnalysis' = NoReport
    /\ inFlight' = inFlight \o Invocations(analysisMode, Body)
    /\ UNCHANGED <<codeSnippet, terminalLogs, analysisMode, screenshot, toast>>
    /\ UNCHANGED <<callVars, stepVars>>
    /\ cleared' = FALSE

\* seq without its element at position i
Without(seq, i) ==
    [j \in 1..(Len(seq) - 1) |-> IF j < i THEN seq[j] ELSE seq[j + 1]]

\* lines 77-87 and 95-97: the call settles with data and no error
InvokeSucceeds ==
    /\ NoHandlerRuns
    /\ \E i \in DOMAIN inFlight : inFlight' = Without(inFlight, i)
    /\ aiAnalysis' = AnalysisData
    /\ toast' = [title |-> "Analysis complete",
                 description |-> <<"Check out the debugging insights below.">>]
    /\ isAnalyzing' = FALSE
    /\ UNCHANGED <<codeSnippet, terminalLogs, analysisMode, screenshot,
                   traditionalAnalysis>>
    /\ UNCHANGED <<callVars, stepVars>>
    /\ UNCHANGED cleared

\* a catch block without the finally block of lines 95-97
InvokeFails_WithoutFinally ==
    /\ NoHandlerRuns
    /\ \E i \in DOMAIN inFlight : inFlight' = Without(inFlight, i)
    /\ \E failure \in Failures :
            toast' = [title |-> "Analysis failed", description |-> <<failure>>]
    /\ UNCHANGED <<codeSnippet, terminalLogs, analysisMode, screenshot,
                   isAnalyzing, aiAnalysis, traditionalAnalysis>>
    /\ UNCHANGED <<callVars, stepVars>>
    /\ UNCHANGED cleared

\* lines 77-83 and 88-97: the call fails, the catch block shows the error
InvokeFails ==
    /\ NoHandlerRuns
    /\ \E i \in DOMAIN inFlight : inFlight' = Without(inFlight, i)
    /\ \E failure \in Failures :
            toast' = [title |-> "Analysis failed", description |-> <<failure>>]
    /\ isAnalyzing' = FALSE
    /\ UNCHANGED <<codeSnippet, terminalLogs, analysisMode, screenshot,
                   aiAnalysis, traditionalAnalysis>>
    /\ UNCHANGED <<callVars, stepVars>>
    /\ UNCHANGED cleared

\* lines 100-106
HandleClear ==
    /\ NoHandlerRuns
    /\ hasInput
    /\ screenshot' = Null
    /\ terminalLogs' = <<>>
    /\ codeSnippet' = <<>>
    /\ aiAnalysis' = Null
    /\ traditionalAnalysis' = NoReport
    /\ UNCHANGED <<analysisMode, isAnalyzing, inFlight, toast>>
    /\ UNCHANGED <<callVars, stepVars>>
    /\ cleared' = TRUE

NextPage ==
    \/ HandleAnalyzeNoInput
    \/ SetAnalysisMode
    \/ SetScreenshot
    \/ SetTerminalLogs
    \/ SetCodeSnippet
    \/ HandleAnalyzeTraditional
    \/ ScanCode
    \/ ScanLogs
    \/ SortIssues
    \/ Return
    \/ TraditionalAnalysisComplete
    \/ HandleAnalyzeAI
    \/ InvokeSucceeds
    \/ InvokeFails
    \/ HandleClear

SpecPage == Init /\ [][NextPage]_vars

\* the synchronous call of analyzeCode inside handleAnalyze
AnalyzeCodeRuns ==
    ScanCode \/ ScanLogs \/ SortIssues \/ Return \/ TraditionalAnalysisComplete

\* the remote call settles, one way or the other
InvokeSettles == InvokeSucceeds \/ InvokeFails

\* a handler that has begun runs to its end, and every remote call settles.
\* The first is weak fairness of AnalyzeCodeRuns with its enabling condition
\* written out: a step of the call is possible exactly when ~NoHandlerRuns.
SpecPageFair ==
    /\ SpecPage
    /\ ([]<>NoHandlerRuns) \/ ([]<><<AnalyzeCodeRuns>>_vars)
    /\ WF_vars(InvokeSettles)

---------------------------------------------------------------------------
(* Interleaved calls of analyzeCode.  A step is one regex.exec of a while  *)
(* loop, or the straight-line code between two loops.  Every RegExp object *)
(* has its lastIndex in lastIndexOf, every array `issues` is in issuesOf.  *)

\* the arguments the callers pass
StepInputs ==
    {<<StrictEqualityCode, <<>>>>,
     <<<<>>, TimeoutThenRefused>>,
     <<LineThreeCode, RefusedThenTimeout>>,
     <<<<" ">>, <<"\n">>>>}

\* the texts the loops scan, and the positions lastIndex takes in them
StepTexts(list) ==
    {IF list = "CODE_PATTERNS" THEN input[1] ELSE input[2] : input \in StepInputs}

LongestStepText ==
    CHOOSE n \in {Len(input[i]) : input \in StepInputs, i \in 1..2} :
        \A input \in StepInputs : Len(input[1]) <= n /\ Len(input[2]) <= n

\* regex.exec(text) of every rule on every text of StepInputs at every
\* lastIndex, computed once
ExecTable ==
    [a \in {<<"CODE_PATTERNS", k, text, i>> :
                k \in DOMAIN CODE_PATTERNS, text \in StepTexts("CODE_PATTERNS"),
                i \in 0..LongestStepText}
            \cup {<<"TERMINAL_PATTERNS", k, text, i>> :
                k \in DOMAIN TERMINAL_PATTERNS, text \in StepTexts("TERMINAL_PATTERNS"),
                i \in 0..LongestStepText} |->
        LET pattern == (IF a[1] = "CODE_PATTERNS"
                        THEN CODE_PATTERNS ELSE TERMINAL_PATTERNS)[a[2]]
        IN  Exec(pattern.regex, pattern.flags, a[3], a[4])] @@ <<>>

\* a scan that runs exec on pattern.regex itself
RegexOfLoop_Catalog(c, list, k) == <<list, k>>

\* lines 349 and 369: `const regex = new RegExp(...)`, an object of the call
RegexOfLoop(c, list, k) == <<c, 0>>

\* one array for every call
IssuesArray_Shared(c) == "caller1"

\* line 343: `const issues = []`, an array of the call
IssuesArray(c) == c

\* the list a call at pc is scanning with, its text and what follows it
ListAt(p) == IF p = "code" THEN "CODE_PATTERNS" ELSE "TERMINAL_PATTERNS"
PatternsAt(p) == IF p = "code" THEN CODE_PATTERNS ELSE TERMINAL_PATTERNS
TextAt(f) == IF f.pc = "code" THEN f.codeSnippet ELSE f.terminalLogs
After(p) == IF p = "code" THEN "logs" ELSE "sort"

Scanning(f) == f.pc \in {"code", "logs"} /\ f.k >= 1

\* another caller is inside a while loop
OthersScanning(c) == \E d \in Callers \ {c} : Scanning(frames[d])

\* lines 342-343
Invoke(c) ==
    /\ frames[c].pc = "idle"
    /\ \E input \in StepInputs :
        frames' = [frames EXCEPT ![c] =
                      [pc |-> "code", codeSnippet |-> input[1],
                       terminalLogs |-> input[2], k |-> 0,
                       report |-> NoReport, overlapped |-> FALSE]]
    /\ issuesOf' = [issuesOf EXCEPT ![IssuesArray(c)] = <<>>]
    /\ UNCHANGED lastIndexOf
    /\ UNCHANGED <<callVars, codeSnippet, terminalLogs, pageVars>>

\* lines 346-349 and 366-369: the test of trim(), and the regex of the
\* first rule
EnterLoop(c) ==
    LET f == frames[c]
    IN  /\ f.pc \in {"code", "logs"}
        /\ f.k = 0
        /\ IF Truthy(Trim(TextAt(f)))
           THEN /\ frames' = [frames EXCEPT ![c].k = 1]
                /\ lastIndexOf' = [lastIndexOf EXCEPT
                        ![RegexOfLoop(c, ListAt(f.pc), 1)] = NewRegExpLastIndex]
           ELSE /\ frames' = [frames EXCEPT ![c].pc = After(f.pc)]
                /\ UNCHANGED lastIndexOf
        /\ UNCHANGED issuesOf
        /\ UNCHANGED <<callVars, codeSnippet, terminalLogs, pageVars>>

\* lines 351-361 and 371-387: exec finds a match and the body of the loop
\* runs
ExecMatch(c) ==
    LET f == frames[c]
        pattern == PatternsAt(f.pc)[f.k]
        regex == RegexOfLoop(c, ListAt(f.pc), f.k)
        array == IssuesArray(c)
        match == ExecTable[<<ListAt(f.pc), f.k, TextAt(f), lastIndexOf[regex]>>]
    IN  /\ Scanning(f)
        /\ match # NoMatch
        /\ lastIndexOf' = [lastIndexOf EXCEPT ![regex] = match.end]
        /\ issuesOf' = [issuesOf EXCEPT ![array] =
                IF f.pc = "code"
                THEN Append(@, CodeIssue(pattern, TextAt(f), match))
                ELSE IF ExistingIssue(@, pattern) THEN @
                     ELSE Append(@, LogIssue(pattern, TextAt(f), match))]
        /\ frames' = [frames EXCEPT ![c].overlapped = @ \/ OthersScanning(c)]
        /\ UNCHANGED <<callVars, codeSnippet, terminalLogs, pageVars>>

\* lines 351 and 371: exec returns null and sets lastIndex to 0; the for
\* loop goes on to the next rule and its new regex, or ends
ExecNull(c) ==
    LET f == frames[c]
        pattern == PatternsAt(f.pc)[f.k]
        regex == RegexOfLoop(c, ListAt(f.pc), f.k)
        match == ExecTable[<<ListAt(f.pc), f.k, TextAt(f), lastIndexOf[regex]>>]
    IN  /\ Scanning(f)
        /\ match = NoMatch
        /\ IF f.k < Len(PatternsAt(f.pc))
           THEN /\ frames' = [frames EXCEPT ![c].k = f.k + 1]
                /\ lastIndexOf' = [lastIndexOf EXCEPT
                        ![regex] = 0,
                        ![RegexOfLoop(c, ListAt(f.pc), f.k + 1)] = NewRegExpLastIndex]
           ELSE /\ frames' = [frames EXCEPT ![c].pc = After(f.pc), ![c].k = 0]
                /\ lastIndexOf' = [lastIndexOf EXCEPT ![regex] = 0]
        /\ UNCHANGED issuesOf
        /\ UNCHANGED <<callVars, codeSnippet, terminalLogs, pageVars>>

\* lines 391-412: sort in place, count, build the summary, return
SortAndReturn(c) ==
    LET f == frames[c]
        sorted == Sort(issuesOf[IssuesArray(c)])
        stats == Stats(sorted)
    IN  /\ f.pc = "sort"
        /\ issuesOf' = [issuesOf EXCEPT ![IssuesArray(c)] = sorted]
        /\ frames' = [frames EXCEPT
                ![c].pc = "done",
                ![c].report = [issues |-> sorted,
                               summary |-> Summary(sorted, stats),
                               stats |-> stats]]
        /\ UNCHANGED lastIndexOf
        /\ UNCHANGED <<callVars, codeSnippet, terminalLogs, pageVars>>

\* the caller drops the report and its array
Drop(c) ==
    /\ frames[c].pc = "done"
    /\ frames' = [frames EXCEPT ![c] = IdleFrame]
    /\ issuesOf' = [issuesOf EXCEPT ![IssuesArray(c)] = <<>>]
    /\ UNCHANGED lastIndexOf
    /\ UNCHANGED <<callVars, codeSnippet, terminalLogs, pageVars>>

\* the steps of a call that is under way
Proceed(c) == EnterLoop(c) \/ ExecMatch(c) \/ ExecNull(c) \/ SortAndReturn(c)

NextSteps == \E c \in Callers : Invoke(c) \/ Proceed(c) \/ Drop(c)

SpecSteps == Init /\ [][NextSteps]_vars

\* a call that has begun keeps running
SpecStepsFair == SpecSteps /\ \A c \in Callers : WF_vars(Proceed(c))

---------------------------------------------------------------------------
(* Vocabulary of the properties *)

Returned == pc = "done"

Types == {"error", "warning", "info"}

NumberOf(arr, type) == Cardinality({k \in DOMAIN arr : arr[k].type = type})

\* a finding made from a rule of CODE_PATTERNS: its message is the rule's
IsCodeFinding(f) ==
    \E k \in DOMAIN CODE_PATTERNS : f.message = <<CODE_PATTERNS[k].message>>

\* a finding made from a rule of TERMINAL_PATTERNS: its message begins with
\* the rule's and goes on with the quoted match
IsLogFinding(f) ==
    /\ Len(f.message) > 1
    /\ \E k \in DOMAIN TERMINAL_PATTERNS : f.message[1] = TERMINAL_PATTERNS[k].message

\* the place of a finding's rule in its rule list
RuleIndex(f) ==
    IF IsCodeFinding(f)
    THEN CHOOSE k \in DOMAIN CODE_PATTERNS : f.message = <<CODE_PATTERNS[k].message>>
    ELSE CHOOSE k \in DOMAIN TERMINAL_PATTERNS : f.message[1] = TERMINAL_PATTERNS[k].message

\* detection order: code before logs, then the rule list, then the text
DetectedNoLater(f, g) ==
    LET sf == IF IsCodeFinding(f) THEN 0 ELSE 1
        sg == IF IsCodeFinding(g) THEN 0 ELSE 1
    IN  \/ sf < sg
        \/ sf = sg /\ RuleIndex(f) < RuleIndex(g)
        \/ sf = sg /\ RuleIndex(f) = RuleIndex(g) /\ f.line <= g.line

---------------------------------------------------------------------------
\* C1: in every returned report, stats.errors, stats.warnings and stats.info
\* are the numbers of issues of type error, warning and info, and their sum
\* is issues.length.
C1_StatsCountIssues ==
    Returned =>
        /\ report.stats.errors = NumberOf(report.issues, "error")
        /\ report.stats.warnings = NumberOf(report.issues, "warning")
        /\ report.stats.info = NumberOf(report.issues, "info")
        /\ report.stats.errors + report.stats.warnings + report.stats.info
              = Len(report.issues)

\* a report with issues of all three types
C1_Witness ==
    /\ Returned
    /\ report.stats.errors > 0
    /\ report.stats.warnings > 0
    /\ report.stats.info > 0

\* C2: in every returned report no warning or info issue comes before an
\* error issue and no info issue comes before a warning issue.
C2_SeverityOrdered ==
    Returned =>
        \A j, k \in DOMAIN report.issues :
            j < k =>
                /\ ~(report.issues[j].type \in {"warning", "info"}
                        /\ report.issues[k].type = "error")
                /\ ~(report.issues[j].type = "info"
                        /\ report.issues[k].type = "warning")

\* a report in which an error found in the logs, hence after every code
\* finding, stands before a warning and an info found in the code
C2_Witness ==
    /\ Returned
    /\ \E i, j, k \in DOMAIN report.issues :
        /\ i < j /\ j < k
        /\ IsLogFinding(report.issues[i]) /\ report.issues[i].type = "error"
        /\ IsCodeFinding(report.issues[j]) /\ report.issues[j].type = "warning"
        /\ IsCodeFinding(report.issues[k]) /\ report.issues[k].type = "info"

\* C3: the sort is stable: issues of the same type stand in detection
\* order, code findings before log findings, within a source in rule-list
\* order, within a rule in the order of the matches in the text.
C3_StableWithinType ==
    Returned =>
        \A j, k \in DOMAIN report.issues :
            (j < k /\ report.issues[j].type = report.issues[k].type)
                => DetectedNoLater(report.issues[j], report.issues[k])

\* the sort keeps the issues of each type as they were detected
C3_SortKeepsTypeOrder ==
    [][pc = "sort" =>
        \A type \in Types :
            SelectSeq(issues', LAMBDA f : f.type = type)
                = SelectSeq(issues, LAMBDA f : f.type = type)]_vars

\* a report whose errors are a code finding followed by a log finding that
\* the sort moved before a warning of the code
C3_Witness ==
    /\ Returned
    /\ \E i, j, k \in DOMAIN report.issues :
        /\ i < j /\ j < k
        /\ report.issues[i].type = "error" /\ IsCodeFinding(report.issues[i])
        /\ report.issues[j].type = "error" /\ IsLogFinding(report.issues[j])
        /\ report.issues[k].type = "warning" /\ IsCodeFinding(report.issues[k])

---------------------------------------------------------------------------
(* What the text holds, said without the scanning loops *)

\* the positions where a match of the rule's pattern begins
MatchStarts(pattern, s) ==
    {p \in 0..Len(s) : Match(<<pattern.regex>>, pattern.flags, s, p) # Fail}

MatchEnd(pattern, s, p) == Match(<<pattern.regex>>, pattern.flags, s, p)

\* the non-overlapping matches, leftmost first: a match counts exactly when
\* no counted match before it reaches over its beginning
NonOverlapping(pattern, s) ==
    CHOOSE P \in SUBSET MatchStarts(pattern, s) :
        \A p \in MatchStarts(pattern, s) :
            p \in P <=> \A q \in P : q < p => MatchEnd(pattern, s, q) <= p

\* the 1-based number of the line position p is on
LineOf(s, p) == Cardinality({q \in 1..p : s[q] = "\n"}) + 1

Blank(s) == \A k \in DOMAIN s : s[k] \in WhiteSpace

CodeFindings(arr) == SelectSeq(arr, IsCodeFinding)
LogFindings(arr) == SelectSeq(arr, IsLogFinding)

SamePair(f, g) == f.category = g.category /\ f.type = g.type

\* the log rules of the pair of f that match somewhere in the text
MatchingRulesOfPair(f, s) ==
    {r \in DOMAIN TERMINAL_PATTERNS :
        /\ SamePair(TERMINAL_PATTERNS[r], f)
        /\ MatchStarts(TERMINAL_PATTERNS[r], s) # {}}

\* C4: the report holds at most one log finding per (category, type); it
\* is the finding of the first match found: the first rule of the pair in
\* TERMINAL_PATTERNS that matches, at its first occurrence in the text; and
\* a pair with a match has its finding.
C4_OneLogFindingPerPair ==
    Returned =>
        LET logs == LogFindings(report.issues)
        IN  /\ \A j, k \in DOMAIN logs : SamePair(logs[j], logs[k]) => j = k
            /\ \A k \in DOMAIN logs :
                LET rules == MatchingRulesOfPair(logs[k], terminalLogs)
                    rule == TERMINAL_PATTERNS[Min(rules)]
                    p == Min(MatchStarts(rule, terminalLogs))
                    text == SubSeq(terminalLogs, p + 1, MatchEnd(rule, terminalLogs, p))
                IN  /\ rules # {}
                    /\ logs[k].message = LogMessage(rule, text)
                    /\ logs[k].line = LineOf(terminalLogs, p)
            /\ \A r \in DOMAIN TERMINAL_PATTERNS :
                MatchStarts(TERMINAL_PATTERNS[r], terminalLogs) # {}
                    => \E k \in DOMAIN logs : SamePair(logs[k], TERMINAL_PATTERNS[r])

\* logs with two occurrences of the first rule on different lines, and the
\* one "Runtime Error" finding quoting the first of them
C4_Witness ==
    /\ Returned
    /\ \E p, q \in MatchStarts(TERMINAL_PATTERNS[1], terminalLogs) :
        /\ p < q
        /\ LineOf(terminalLogs, p) < LineOf(terminalLogs, q)
    /\ \E k \in DOMAIN report.issues :
        /\ report.issues[k].category = "Runtime Error"
        /\ report.issues[k].line = 1

\* C5: the log findings of analyzeCode(c, l) are the findings of
\* analyzeCode("", l) and its code findings are those of analyzeCode(c, ""):
\* neither source suppresses a finding of the other.
C5_SourcesIndependent ==
    Returned =>
        /\ LogFindings(report.issues) = analyzeCode(<<>>, terminalLogs).issues
        /\ CodeFindings(report.issues) = analyzeCode(codeSnippet, <<>>).issues
        /\ \A k \in DOMAIN report.issues :
            IsCodeFinding(report.issues[k]) # IsLogFinding(report.issues[k])

\* a report with an error from the code and an error from the logs
C5_Witness ==
    /\ Returned
    /\ \E j, k \in DOMAIN report.issues :
        /\ IsCodeFinding(report.issues[j]) /\ report.issues[j].type = "error"
        /\ IsLogFinding(report.issues[k]) /\ report.issues[k].type = "error"

\* the findings of a report made from rule k of CODE_PATTERNS
FindingsOfCodeRule(arr, k) ==
    {j \in DOMAIN arr : arr[j].message = <<CODE_PATTERNS[k].message>>}

\* C6: for a non-blank code snippet every rule of CODE_PATTERNS has as many
\* findings in the report as it has non-overlapping matches in the snippet.
C6_OneFindingPerMatch ==
    (Returned /\ ~Blank(codeSnippet)) =>
        \A k \in DOMAIN CODE_PATTERNS :
            Cardinality(FindingsOfCodeRule(report.issues, k))
                = Cardinality(NonOverlapping(CODE_PATTERNS[k], codeSnippet))

\* a snippet in which one rule matches twice and another once
C6_Witness ==
    /\ Returned
    /\ \E j, k \in DOMAIN CODE_PATTERNS :
        /\ Cardinality(FindingsOfCodeRule(report.issues, j)) = 2
        /\ Cardinality(FindingsOfCodeRule(report.issues, k)) = 1

---------------------------------------------------------------------------
\* whether the text holds the characters of `part` in a row
Contains(s, part) ==
    \E p \in 0..(Len(s) - Len(part)) :
        \A k \in DOMAIN part : s[p + k] = part[k]

VarStatement == <<"v", "a", "r", " ", "x", " ", "=", " ", "1", ";">>

\* the rule of /var\s+\w+/
VarRule == CHOOSE k \in DOMAIN CODE_PATTERNS :
              CODE_PATTERNS[k].message = "Using 'var' instead of 'let' or 'const'"

\* the "Code Quality" warnings of the report that carry the message on var
VarFindings(arr) ==
    {j \in DOMAIN arr :
        /\ arr[j].category = "Code Quality"
        /\ arr[j].type = "warning"
        /\ arr[j].message = <<CODE_PATTERNS[VarRule].message>>}

\* C7 as stated: a code string containing `var x = 1;` gives exactly one
\* "Code Quality" warning on var.
C7_ExactlyOneVarFinding ==
    (Returned /\ Contains(codeSnippet, VarStatement)) =>
        Cardinality(VarFindings(report.issues)) = 1

\* C7 amended: a code string containing `var x = 1;` gives at least one
\* "Code Quality" warning on var, one for every non-overlapping match of
\* /var\s+\w+/ in the string.
C7_VarFindingPerMatch ==
    (Returned /\ Contains(codeSnippet, VarStatement)) =>
        /\ Cardinality(VarFindings(report.issues)) >= 1
        /\ Cardinality(VarFindings(report.issues))
              = Cardinality(NonOverlapping(CODE_PATTERNS[VarRule], codeSnippet))

\* a snippet that holds `var x = 1;` twice, and the two findings
C7_Witness ==
    /\ Returned
    /\ Contains(codeSnippet, VarStatement \o VarStatement)
    /\ Cardinality(VarFindings(report.issues)) = 2

NoIssuesSentence == <<"No issues detected. Code looks clean!">>

EmptyReport ==
    [issues |-> <<>>,
     summary |-> NoIssuesSentence,
     stats |-> [errors |-> 0, warnings |-> 0, info |-> 0]]

\* C8: when both inputs are empty or whitespace-only the report is empty
\* with zero stats and the "No issues detected" summary; a blank input adds
\* no finding of its source and the other source is scanned as if alone.
C8_BlankInputs ==
    Returned =>
        /\ (Blank(codeSnippet) /\ Blank(terminalLogs)) => report = EmptyReport
        /\ Blank(codeSnippet) =>
              /\ CodeFindings(report.issues) = <<>>
              /\ report = analyzeCode(<<>>, terminalLogs)
              /\ \A r \in DOMAIN TERMINAL_PATTERNS :
                    MatchStarts(TERMINAL_PATTERNS[r], terminalLogs) # {}
                        => \E k \in DOMAIN report.issues :
                              SamePair(report.issues[k], TERMINAL_PATTERNS[r])
        /\ Blank(terminalLogs) =>
              /\ LogFindings(report.issues) = <<>>
              /\ report = analyzeCode(codeSnippet, <<>>)
              /\ \A r \in DOMAIN CODE_PATTERNS :
                    MatchStarts(CODE_PATTERNS[r], codeSnippet) # {}
                        => FindingsOfCodeRule(report.issues, r) # {}

\* the ScanCode step of a call with a blank snippet leaves `issues` alone
C8_BlankCodeSkipped ==
    [][(pc = "code" /\ Blank(codeSnippet)) => issues' = issues]_vars

\* a call with whitespace in both arguments, returned
C8_Witness ==
    /\ Returned
    /\ codeSnippet # <<>> /\ Blank(codeSnippet)
    /\ terminalLogs # <<>> /\ Blank(terminalLogs)
    /\ report = EmptyReport

\* a call with a whitespace-only snippet whose logs gave a finding
C8_WitnessOtherSource ==
    /\ Returned
    /\ codeSnippet # <<>> /\ Blank(codeSnippet)
    /\ report.issues # <<>>

---------------------------------------------------------------------------
(* The summary sentences: the closing piece tells the sentence *)

ErrorsClose == ". Address errors first."
WarningsClose == ". Consider addressing warnings for better code quality."
InfoClose == ". Minor improvements suggested."

Close(summary) == summary[Len(summary)]

\* "s" exactly when the count is not 1
PluralS(n) == IF n # 1 THEN "s" ELSE ""

\* C9: the summary is the "No issues detected" sentence iff issues is
\* empty; otherwise the "Address errors first." sentence iff errors > 0;
\* otherwise the "Consider addressing warnings" sentence iff warnings > 0;
\* otherwise the "Minor improvements suggested." sentence, and then
\* info > 0; the numbers printed are the counts of the issues by type.
C9_SummaryDecisionTable ==
    Returned =>
        LET s == report.summary
            n == Len(report.issues)
            errors == NumberOf(report.issues, "error")
            warnings == NumberOf(report.issues, "warning")
            info == NumberOf(report.issues, "info")
        IN  /\ s = NoIssuesSentence <=> n = 0
            /\ Close(s) = ErrorsClose <=> (n > 0 /\ errors > 0)
            /\ Close(s) = WarningsClose <=> (n > 0 /\ errors = 0 /\ warnings > 0)
            /\ Close(s) = InfoClose <=> (n > 0 /\ errors = 0 /\ warnings = 0)
            /\ Close(s) = InfoClose => info > 0
            /\ Close(s) = ErrorsClose =>
                /\ Len(s) = 13
                /\ <<s[1], s[2], s[3]>> = <<"Found ", ToString(errors), " error">>
                /\ <<s[5], s[6], s[7]>> = <<", ", ToString(warnings), " warning">>
                /\ <<s[9], s[10], s[11]>> = <<", and ", ToString(info), " info message">>
            /\ Close(s) = WarningsClose =>
                /\ Len(s) = 9
                /\ <<s[1], s[2], s[3]>> = <<"Found ", ToString(warnings), " warning">>
                /\ <<s[5], s[6], s[7]>> = <<" and ", ToString(info), " info message">>
            /\ Close(s) = InfoClose =>
                /\ Len(s) = 5
                /\ <<s[1], s[2], s[3]>> = <<"Found ", ToString(info), " info message">>

\* a report without errors, with warnings and info messages: the third row
C9_Witness ==
    /\ Returned
    /\ report.stats.errors = 0
    /\ report.stats.warnings > 0
    /\ report.stats.info > 0
    /\ Close(report.summary) = WarningsClose

\* a report with info messages alone: the last row
C9_WitnessInfoOnly ==
    /\ Returned
    /\ report.stats = [errors |-> 0, warnings |-> 0, info |-> 2]
    /\ Close(report.summary) = InfoClose

\* C10: in every summary each count word ends in "s" exactly when its
\* count is not 1, each count of the sentence on its own.
C10_PluralWhenNotOne ==
    Returned =>
        LET s == report.summary
            st == report.stats
        IN  /\ Close(s) = ErrorsClose =>
                <<s[4], s[8], s[12]>>
                    = <<PluralS(st.errors), PluralS(st.warnings), PluralS(st.info)>>
            /\ Close(s) = WarningsClose =>
                <<s[4], s[8]>> = <<PluralS(st.warnings), PluralS(st.info)>>
            /\ Close(s) = InfoClose =>
                s[4] = PluralS(st.info)

\* "1 error, 0 warnings, and 2 info messages": singular, plural of zero and
\* plural of two in one sentence
C10_Witness ==
    /\ Returned
    /\ report.stats = [errors |-> 1, warnings |-> 0, info |-> 2]
    /\ <<report.summary[4], report.summary[8], report.summary[12]>> = <<"", "s", "s">>

\* "1 info message": the last sentence, where the code tests `> 1`
C10_WitnessOneInfo ==
    /\ Returned
    /\ report.stats = [errors |-> 0, warnings |-> 0, info |-> 1]
    /\ report.summary[4] = ""

---------------------------------------------------------------------------
\* the number of lines of a text
NumberOfLines(s) == Cardinality({q \in DOMAIN s : s[q] = "\n"}) + 1

\* the findings of code rule k that report line n
FindingsOfCodeRuleAtLine(arr, k, n) ==
    {j \in FindingsOfCodeRule(arr, k) : arr[j].line = n}

\* C11: the line of every finding is the number of newline characters
\* before the start of its match plus one, so at least 1 and at most the
\* number of lines of the text; the var finding of "a\nb\nvar x = 1;" has
\* line 3.
C11_LineOfMatchStart ==
    Returned =>
        /\ ~Blank(codeSnippet) =>
            \A k \in DOMAIN CODE_PATTERNS : \A n \in 1..NumberOfLines(codeSnippet) + 1 :
                Cardinality(FindingsOfCodeRuleAtLine(report.issues, k, n))
                    = Cardinality({p \in NonOverlapping(CODE_PATTERNS[k], codeSnippet) :
                                      LineOf(codeSnippet, p) = n})
        /\ \A j \in DOMAIN report.issues :
            LET f == report.issues[j]
            IN  IF IsCodeFinding(f)
                THEN f.line \in 1..NumberOfLines(codeSnippet)
                ELSE /\ f.line \in 1..NumberOfLines(terminalLogs)
                     /\ \E r \in MatchingRulesOfPair(f, terminalLogs) :
                            f.line = LineOf(terminalLogs,
                                            Min(MatchStarts(TERMINAL_PATTERNS[r], terminalLogs)))
        /\ codeSnippet = LineThreeCode =>
            \A j \in VarFindings(report.issues) : report.issues[j].line = 3

\* the report on "a\nb\nvar x = 1;" with its var finding on line 3
C11_Witness ==
    /\ Returned
    /\ codeSnippet = LineThreeCode
    /\ \E j \in VarFindings(report.issues) : report.issues[j].line = 3

---------------------------------------------------------------------------
\* the match a log finding quotes: the first occurrence of the first rule
\* of its pair that matches
QuotedMatch(f, s) ==
    LET rule == TERMINAL_PATTERNS[Min(MatchingRulesOfPair(f, s))]
        p == Min(MatchStarts(rule, s))
    IN  SubSeq(s, p + 1, MatchEnd(rule, s, p))

\* what stands between the quotation marks of a log finding's message
Embedded(f) == SubSeq(f.message, 5, Len(f.message) - 1)

Ellipsis == <<".", ".", ".">>

\* C12: a log finding embeds a match of more than 50 characters as its
\* first 50 characters followed by "...", and a match of 50 characters or
\* fewer in full without the ellipsis.
C12_TruncatedAtFifty ==
    Returned =>
        \A j \in DOMAIN report.issues :
            LET f == report.issues[j]
                text == QuotedMatch(f, terminalLogs)
            IN  IsLogFinding(f) =>
                    /\ SubSeq(f.message, 2, 4) = <<":", " ", "\"">>
                    /\ f.message[Len(f.message)] = "\""
                    /\ Len(text) > 50 => Embedded(f) = SubSeq(text, 1, 50) \o Ellipsis
                    /\ Len(text) <= 50 => Embedded(f) = text

\* a match of 51 characters, embedded as 50 characters and the ellipsis
C12_Witness ==
    /\ Returned
    /\ \E j \in DOMAIN report.issues :
        /\ IsLogFinding(report.issues[j])
        /\ Len(QuotedMatch(report.issues[j], terminalLogs)) = 51
        /\ Len(Embedded(report.issues[j])) = 53

\* a match of exactly 50 characters, embedded in full
C12_WitnessAtLimit ==
    /\ Returned
    /\ \E j \in DOMAIN report.issues :
        /\ IsLogFinding(report.issues[j])
        /\ Len(QuotedMatch(report.issues[j], terminalLogs)) = 50
        /\ Embedded(report.issues[j]) = QuotedMatch(report.issues[j], terminalLogs)

---------------------------------------------------------------------------
\* an empty catch block of JavaScript: `catch`, a binding in parentheses or
\* none, and braces with nothing but white space between them
EmptyCatchBlock ==
    Cat(<<Lit(<<"c", "a", "t", "c", "h">>), Star(Ws),
          Opt(Cat(<<Chr("("), Star(NotCls({")"})), Chr(")")>>)), Star(Ws),
          Chr("{"), Star(Ws), Chr("}")>>)

ContainsEmptyCatch(s) ==
    \E p \in 0..Len(s) : Match(<<EmptyCatchBlock>>, {"g"}, s, p) # Fail

\* an empty catch block with its binding in parentheses, the form of the
\* rule at line 70
ContainsEmptyCatchWithBinding(s) ==
    \E k \in DOMAIN CODE_PATTERNS :
        /\ CODE_PATTERNS[k].message = "Empty catch block - errors are silently ignored"
        /\ MatchStarts(CODE_PATTERNS[k], s) # {}

ReportsEmptyCatch ==
    /\ \E j \in DOMAIN report.issues :
        /\ report.issues[j].type = "error"
        /\ report.issues[j].category = "Error Handling"
    /\ report.stats.errors >= 1
    /\ Close(report.summary) = ErrorsClose

\* C16: for every code string containing an empty catch block the report
\* has a finding of type "error" and category "Error Handling", hence
\* stats.errors >= 1 and the "Address errors first." summary.
C16_EmptyCatchReported ==
    (Returned /\ ContainsEmptyCatch(codeSnippet)) => ReportsEmptyCatch

\* C16 for the blocks the rule's pattern covers: `catch (...) {}` is reported
C16_CatchWithBindingReported ==
    (Returned /\ ContainsEmptyCatchWithBinding(codeSnippet)) => ReportsEmptyCatch

\* the report on `try { risky(); } catch (e) {}`
C16_Witness ==
    /\ Returned
    /\ codeSnippet = EmptyCatchCode
    /\ ReportsEmptyCatch

---------------------------------------------------------------------------
\* the match of a log finding as the message embeds it
Truncated(text) ==
    IF Len(text) > 50 THEN SubSeq(text, 1, 50) \o Ellipsis ELSE text

\* C18: a code finding carries its rule's type, category, message,
\* suggestion and fixCode unchanged, the message without the matched text;
\* the message of a log finding is its rule's message followed by `: "`,
\* the matched text, truncated if need be, and `"`.
C18_FindingsCopyTheRule ==
    Returned =>
        \A j \in DOMAIN report.issues :
            LET f == report.issues[j]
            IN  /\ IsCodeFinding(f) # IsLogFinding(f)
                /\ IsCodeFinding(f) =>
                    LET rule == CODE_PATTERNS[RuleIndex(f)]
                    IN  /\ MatchStarts(rule, codeSnippet) # {}
                        /\ f.type = rule.type
                        /\ f.category = rule.category
                        /\ f.message = <<rule.message>>
                        /\ f.suggestion = rule.suggestion
                        /\ f.code = rule.fixCode
                /\ IsLogFinding(f) =>
                    LET rule == TERMINAL_PATTERNS[Min(MatchingRulesOfPair(f, terminalLogs))]
                    IN  /\ f.type = rule.type
                        /\ f.category = rule.category
                        /\ f.message = <<rule.message, ":", " ", "\"">>
                                          \o Truncated(QuotedMatch(f, terminalLogs))
                                          \o <<"\"">>
                        /\ f.suggestion = rule.suggestion

\* a report with a code finding that carries a fixCode and a log finding
\* that quotes its match
C18_Witness ==
    /\ Returned
    /\ \E j, k \in DOMAIN report.issues :
        /\ IsCodeFinding(report.issues[j])
        /\ report.issues[j].code # Undefined
        /\ IsLogFinding(report.issues[k])
        /\ Embedded(report.issues[k]) = QuotedMatch(report.issues[k], terminalLogs)

---------------------------------------------------------------------------
\* the log rule whose message is m
LogRuleWithMessage(m) ==
    CHOOSE r \in DOMAIN TERMINAL_PATTERNS : TERMINAL_PATTERNS[r].message = m

RefusedRule == LogRuleWithMessage("Connection refused - service may be down")
TimeoutRule == LogRuleWithMessage("Connection timeout - network or service issue")

\* the log findings made from log rule r
FindingsOfLogRule(arr, r) ==
    {j \in DOMAIN arr :
        IsLogFinding(arr[j]) /\ arr[j].message[1] = TERMINAL_PATTERNS[r].message}

\* C19: the log dedup looks at (category, type) alone: when two log rules
\* of one pair both match, as ECONNREFUSED and ETIMEDOUT of
\* ("Network", "error"), the rule that comes first in TERMINAL_PATTERNS has
\* the only finding and the later rule has none, whatever the order of the
\* matches in the text.
C19_LaterRuleOfPairSuppressed ==
    Returned =>
        /\ \A r1, r2 \in DOMAIN TERMINAL_PATTERNS :
            (/\ r1 < r2
             /\ SamePair(TERMINAL_PATTERNS[r1], TERMINAL_PATTERNS[r2])
             /\ MatchStarts(TERMINAL_PATTERNS[r1], terminalLogs) # {}
             /\ MatchStarts(TERMINAL_PATTERNS[r2], terminalLogs) # {})
                => /\ FindingsOfLogRule(report.issues, r2) = {}
                   /\ Cardinality(FindingsOfLogRule(report.issues, r1)) <= 1
        /\ (/\ MatchStarts(TERMINAL_PATTERNS[RefusedRule], terminalLogs) # {}
            /\ MatchStarts(TERMINAL_PATTERNS[TimeoutRule], terminalLogs) # {})
                => /\ RefusedRule < TimeoutRule
                   /\ Cardinality(FindingsOfLogRule(report.issues, RefusedRule)) = 1
                   /\ FindingsOfLogRule(report.issues, TimeoutRule) = {}
                   /\ Cardinality({j \in DOMAIN report.issues :
                                      report.issues[j].category = "Network"}) = 1

\* logs with ETIMEDOUT on an earlier line than ECONNREFUSED, and the one
\* "Network" finding, which is that of ECONNREFUSED
C19_Witness ==
    /\ Returned
    /\ MatchStarts(TERMINAL_PATTERNS[TimeoutRule], terminalLogs) # {}
    /\ MatchStarts(TERMINAL_PATTERNS[RefusedRule], terminalLogs) # {}
    /\ Min(MatchStarts(TERMINAL_PATTERNS[TimeoutRule], terminalLogs))
          < Min(MatchStarts(TERMINAL_PATTERNS[RefusedRule], terminalLogs))
    /\ Cardinality(FindingsOfLogRule(report.issues, RefusedRule)) = 1
    /\ FindingsOfLogRule(report.issues, TimeoutRule) = {}

---------------------------------------------------------------------------
\* the "=" of s at position p starts a run of "=" characters of length n
EqualsRunAt(s, p, n) ==
    /\ p \in DOMAIN s
    /\ p + n - 1 \in DOMAIN s
    /\ \A q \in p..(p + n - 1) : s[q] = "="
    /\ (p - 1 \in DOMAIN s => s[p - 1] # "=")
    /\ (p + n \in DOMAIN s => s[p + n] # "=")

\* every "=" of s is part of a `===` or of a `!==`, and there is one
OnlyStrictEquality(s) ==
    /\ \E p \in DOMAIN s : s[p] = "="
    /\ \A p \in DOMAIN s :
        s[p] = "=" =>
            \E q \in (p - 2)..p :
                \/ /\ EqualsRunAt(s, q, 3)
                   /\ (q - 1 \in DOMAIN s => s[q - 1] # "!")
                \/ /\ EqualsRunAt(s, q, 2)
                   /\ q - 1 \in DOMAIN s
                   /\ s[q - 1] = "!"

EqualityMessages ==
    {"Using loose equality (==) instead of strict equality (===)",
     "Using loose inequality (!=) instead of strict inequality (!==)",
     "Invalid operator (three equals with spaces)"}

\* C20: code whose only equality operators are `===` and `!==`, written
\* without spaces, gets no loose equality warning, no loose inequality
\* warning and no "Invalid operator" error.
C20_StrictEqualityNotReported ==
    (Returned /\ OnlyStrictEquality(codeSnippet)) =>
        \A j \in DOMAIN report.issues :
            IsCodeFinding(report.issues[j])
                => report.issues[j].message[1] \notin EqualityMessages

---------------------------------------------------------------------------
\* a step that hands a body to the remote function
SendsToRemote == Len(inFlight') > Len(inFlight)

\* a step that puts a result into traditionalAnalysis
SetsTraditionalAnalysis ==
    traditionalAnalysis' # traditionalAnalysis /\ traditionalAnalysis' # NoReport

\* C17: in traditional mode no step of the page calls the remote function,
\* and a traditional result is what the local analyzeCode returns for the
\* two texts of the page, set by a step that sends nothing.
C17_TraditionalModeStaysLocal ==
    [][/\ analysisMode = "traditional" => ~SendsToRemote
       /\ SetsTraditionalAnalysis =>
            /\ analysisMode = "traditional"
            /\ traditionalAnalysis' = analyzeCode(codeSnippet, terminalLogs)
            /\ inFlight' = inFlight]_vars

\* a traditional analysis with findings has run while nothing is in flight,
\* with a screenshot left on the page from the AI mode
C17_Witness ==
    /\ NoHandlerRuns
    /\ analysisMode = "traditional"
    /\ traditionalAnalysis # NoReport
    /\ traditionalAnalysis.issues # <<>>
    /\ toast.title = "Traditional analysis complete"
    /\ screenshot # Null
    /\ inFlight = <<>>

---------------------------------------------------------------------------
\* caller c holds the report of a call
Done(c) == frames[c].pc = "done"

SameArguments(c, d) ==
    /\ frames[c].codeSnippet = frames[d].codeSnippet
    /\ frames[c].terminalLogs = frames[d].terminalLogs

\* C13: every call leaves the RegExp objects of the catalog as they were
\* made, with lastIndex 0, and leaves nothing else behind: whatever calls
\* came before or in between, two calls with the same arguments return the
\* same report.
C13_NoStateSurvives ==
    /\ \A o \in CatalogRegexes : lastIndexOf[o] = 0
    /\ \A c \in Callers :
        frames[c].pc = "idle" => issuesOf[c] = <<>> /\ lastIndexOf[<<c, 0>>] = 0
    /\ \A c, d \in Callers :
        (Done(c) /\ Done(d) /\ SameArguments(c, d))
            => frames[c].report = frames[d].report

\* two callers hold the reports of calls with the same arguments, with
\* findings from several matches of one rule
C13_Witness ==
    /\ Done("caller1") /\ Done("caller2")
    /\ SameArguments("caller1", "caller2")
    /\ frames["caller1"].codeSnippet = StrictEqualityCode
    /\ Len(frames["caller1"].report.issues) >= 2
    /\ frames["caller1"].report = frames["caller2"].report

\* the RegExp object of the loop caller c is in, and what exec returns on it
RegexAt(c) == RegexOfLoop(c, ListAt(frames[c].pc), frames[c].k)

MatchAt(c) ==
    LET f == frames[c]
    IN  ExecTable[<<ListAt(f.pc), f.k, TextAt(f), lastIndexOf[RegexAt(c)]>>]

\* re matches the empty string somewhere
RECURSIVE Nullable(_)
Nullable(re) ==
    CASE re.t = "lit" -> Len(re.s) = 0
      [] re.t = "cls" -> FALSE
      [] re.t = "cat" -> \A j \in DOMAIN re.rs : Nullable(re.rs[j])
      [] re.t = "alt" -> \E j \in DOMAIN re.rs : Nullable(re.rs[j])
      [] re.t = "rep" -> re.lo = 0 \/ Nullable(re.r)
      [] OTHER -> TRUE

NoRuleMatchesEmpty ==
    /\ \A k \in DOMAIN CODE_PATTERNS : ~Nullable(CODE_PATTERNS[k].regex)
    /\ \A k \in DOMAIN TERMINAL_PATTERNS : ~Nullable(TERMINAL_PATTERNS[k].regex)

Populated(r) ==
    /\ r.summary # <<>>
    /\ r.stats.errors >= 0 /\ r.stats.warnings >= 0 /\ r.stats.info >= 0
    /\ r.stats.errors + r.stats.warnings + r.stats.info = Len(r.issues)

\* C14: every call that has begun returns, with a report that has its
\* issues, its counts and its summary; no pattern of the catalog can match
\* the empty string, and every match of a while loop is of at least one
\* character and moves lastIndex forward.
C14_TotalAndAdvancing ==
    /\ \A c \in Callers : (frames[c].pc # "idle") ~> Done(c)
    /\ [](/\ NoRuleMatchesEmpty
          /\ \A c \in Callers : Done(c) => Populated(frames[c].report))
    /\ [][\A c \in Callers :
            ExecMatch(c) =>
                /\ MatchAt(c).end > MatchAt(c).index
                /\ lastIndexOf'[RegexAt(c)] > lastIndexOf[RegexAt(c)]]_vars

\* a call on code and logs with matches has returned, and so has a call on
\* whitespace alone
C14_Witness ==
    /\ Done("caller1")
    /\ frames["caller1"].codeSnippet = LineThreeCode
    /\ frames["caller1"].terminalLogs = RefusedThenTimeout
    /\ Len(frames["caller1"].report.issues) >= 2
    /\ Done("caller2")
    /\ frames["caller2"].codeSnippet = <<" ">>
    /\ frames["caller2"].report.issues = <<>>
    /\ Populated(frames["caller2"].report)

\* C15: however the steps of the calls interleave, a call returns the
\* report it returns when it runs alone.
C15_InterleavedCallsAsAlone ==
    \A c \in Callers :
        Done(c) => frames[c].report =
                      analyzeCode(frames[c].codeSnippet, frames[c].terminalLogs)

\* a call has returned findings after matches found while the other caller
\* was inside a loop, and the other call is still scanning with findings of
\* its own
C15_Witness ==
    \E c \in Callers : \E d \in Callers \ {c} :
        /\ Done(c)
        /\ frames[c].overlapped
        /\ frames[c].report.issues # <<>>
        /\ Scanning(frames[d])
        /\ issuesOf[IssuesArray(d)] # <<>>

---------------------------------------------------------------------------
\* a step that shows the toast of the call with no input
ShowsNoInputToast == toast' # toast /\ toast' = NoInputToast

\* C21: whenever handleAnalyze has set isAnalyzing, it is reset: by the
\* traditional branch, and in AI mode when the remote call settles, with
\* data, with an error, with data.error or by rejection.  Only a call with
\* input sets isAnalyzing; the call with no input shows its toast and
\* leaves isAnalyzing, both results and the remote function alone.
C21_AnalyzingEndsAndNoInputIsInert ==
    /\ isAnalyzing ~> ~isAnalyzing
    /\ [][/\ (~isAnalyzing /\ isAnalyzing') => hasInput
          /\ (HandleAnalyzeNoInput \/ ShowsNoInputToast) =>
                /\ ~hasInput
                /\ UNCHANGED <<isAnalyzing, aiAnalysis, traditionalAnalysis,
                               inFlight>>]_vars

\* the remote call of an AI analysis has failed and isAnalyzing is reset
C21_Witness ==
    /\ NoHandlerRuns
    /\ toast.title = "Analysis failed"
    /\ ~isAnalyzing
    /\ inFlight = <<>>
    /\ analysisMode = "ai"

\* a call with no input has shown its toast while a result was on the page
C21_WitnessNoInput ==
    /\ toast = NoInputToast
    /\ ~hasInput
    /\ aiAnalysis # Null

---------------------------------------------------------------------------
BothResults == aiAnalysis # Null /\ traditionalAnalysis # NoReport

\* C22: after handleClear both results stay null until the next
\* handleAnalyze, also when an AI analysis is in flight at the clear, and
\* the two results are never both set.
C22_ClearedStaysEmpty ==
    /\ cleared => (aiAnalysis = Null /\ traditionalAnalysis = NoReport)
    /\ ~BothResults

\* C22, its second half alone: the two results are never both set
C22_NeverBothResults == ~BothResults

=============================================================================
